---- MODULE Spec2Model ----
(***************************************************************************)
(* The VAD streaming engine of server/api/vad: the boundary state machine  *)
(* of BaseVADProcessor, the four detection backends built on it, and the   *)
(* /ws/vad WebSocket handler that buffers audio bytes, slices them into    *)
(* frames and routes control messages.                                     *)
(*                                                                         *)
(* Representation choices                                                  *)
(*  - A probability is an integer number of 1/ProbDen: 0.5 is 30, 0.9 is   *)
(*    54.  ProbDen = 60 makes the mean of up to five 0/1 values exact.     *)
(*  - A byte of the audio stream is represented by its offset in the       *)
(*    stream of the connection, so a byte string is a sequence of offsets  *)
(*    (kept as runs of consecutive offsets) and "the same bytes" means     *)
(*    "the same offsets in the same order".                                *)
(*  - An optional value (Python None / absent JSON key) is <<>>, a present *)
(*    value v is <<v>>.                                                    *)
(*  - The hidden state of a native model (TenVad buffer, Silero recurrent  *)
(*    state) is the number of frames it has absorbed since its initial     *)
(*    value; 0 is the initial value.                                       *)
(***************************************************************************)
EXTENDS Integers, Sequences, FiniteSets, TLC

VARIABLES
    VAD_BACKEND,          \* settings.VAD_BACKEND, the configured backend name
    pc,                   \* position of the handler: accept, recv, frames, closed
    backend,              \* local `backend` of vad_websocket
    chunk_size,           \* local `chunk_size` of vad_websocket
    vad_processor,        \* the processor object of the connection
    audio_buffer,         \* local `audio_buffer`: bytes not yet sliced
    frame_count,          \* local `frame_count`
    chunk_bytes,          \* local `chunk_bytes`: the frame sliced last
    _ten_vad_instance,    \* module global of ten_vad.py
    _webrtc_vad_instance, \* module global of webrtc_vad.py
    _onnx_session,        \* module global of silero_onnx.py
    _vad_model,           \* module global of silero_torch.py
    sent,                 \* the JSON events sent on the socket, in order
    fed,                  \* what the last process() call was given
    message,              \* local `message`: the message received last
    rx,                   \* number of audio bytes received so far
    nmsg,                 \* number of messages received so far
    switched,             \* whether a backend switch has succeeded
    calls,                \* the calls made on a processor driven directly
    other_processor       \* the processor object of another connection

vars == << VAD_BACKEND, pc, backend, chunk_size, vad_processor, audio_buffer,
           frame_count, chunk_bytes, _ten_vad_instance, _webrtc_vad_instance,
           _onnx_session, _vad_model, sent, fed, message, rx, nmsg, switched,
           calls, other_processor >>

globals == << _ten_vad_instance, _webrtc_vad_instance, _onnx_session, _vad_model >>

-----------------------------------------------------------------------------
(* Bounds of the model *)

MaxMsgs == 3

MaxCalls == 4

SpeechFrames == 9

SilenceFrames == 16

MaxOtherFrames == 2

-----------------------------------------------------------------------------
(* Program constants *)

ProbDen == 60

SAMPLE_RATE == 16000

DEFAULT_MIN_SPEECH_MS == 250

\* the default of BaseVADProcessor.__init__, used when the handler passes none
BASE_MIN_SILENCE_MS == 300

DEFAULT_MIN_SILENCE_MS == 500

HISTORY_SIZE == 5

Prob(tenths) == tenths * (ProbDen \div 10)

DEFAULT_THRESHOLD == Prob(5)

Backends == {"ten", "webrtc", "silero_torch", "silero_onnx"}

CHUNK_SIZES ==
    [b \in Backends |->
        CASE b = "ten" -> 256
          [] b = "webrtc" -> 480
          [] b = "silero_torch" -> 512
          [] b = "silero_onnx" -> 512]

\* get_chunk_size that ignores the table and always answers the fallback
get_chunk_size_fallback(b) == 512

get_chunk_size(b) == IF b \in DOMAIN CHUNK_SIZES THEN CHUNK_SIZES[b] ELSE 512

-----------------------------------------------------------------------------
(* Optional values and JSON objects *)

None == << >>

Some(v) == << v >>

\* config.get(k): None when the key is absent
Get(config, k) == IF k \in DOMAIN config THEN Some(config[k]) ELSE None

\* config.get(k, d)
GetOr(config, k, d) == IF k \in DOMAIN config THEN config[k] ELSE d

-----------------------------------------------------------------------------
(* BaseVADProcessor *)

\* int(ms * self.sample_rate / 1000)
ms_to_samples(ms) == (ms * SAMPLE_RATE) \div 1000

\* __init__ of the base class followed by the subclass's own fields
NewProcessor(kind, threshold, min_speech_ms, min_silence_ms) ==
    [ kind |-> kind,
      threshold |-> threshold,
      min_speech_samples |-> ms_to_samples(min_speech_ms),
      min_silence_samples |-> ms_to_samples(min_silence_ms),
      is_speaking |-> FALSE,
      speech_samples |-> 0,
      silence_samples |-> 0,
      _history |-> << >>,
      _state |-> 0 ]

\* a reset that forgets the silence run
base_reset_partial(p) == [p EXCEPT !.is_speaking = FALSE, !.speech_samples = 0]

\* BaseVADProcessor.reset
base_reset(p) ==
    [p EXCEPT !.is_speaking = FALSE, !.speech_samples = 0, !.silence_samples = 0]

\* The reset() of the processor's class, as far as it changes the processor
reset(p) ==
    CASE p.kind = "webrtc" -> [base_reset(p) EXCEPT !._history = << >>]
      [] p.kind = "silero_onnx" -> [base_reset(p) EXCEPT !._state = 0]
      [] OTHER -> base_reset(p)

\* SileroTorchVADProcessor.reset calls self.model.reset_states() on the
\* process-wide model; the other classes leave the globals alone
reset_model(p, model) ==
    IF p.kind = "silero_torch" THEN [model EXCEPT !.state = 0] ELSE model

\* process with the threshold test written > instead of >=
process_strict(p, speech_prob, n) ==
    LET is_speech == speech_prob > p.threshold IN
    IF is_speech
    THEN LET q == [p EXCEPT !.speech_samples = @ + n, !.silence_samples = 0] IN
         IF ~q.is_speaking /\ q.speech_samples >= q.min_speech_samples
         THEN [ proc |-> [q EXCEPT !.is_speaking = TRUE],
                event |-> "speech_start", speech_prob |-> speech_prob ]
         ELSE [ proc |-> q, event |-> "none", speech_prob |-> speech_prob ]
    ELSE LET q == [p EXCEPT !.silence_samples = @ + n] IN
         IF q.is_speaking /\ q.silence_samples >= q.min_silence_samples
         THEN [ proc |-> [q EXCEPT !.is_speaking = FALSE, !.speech_samples = 0],
                event |-> "speech_end", speech_prob |-> speech_prob ]
         ELSE [ proc |-> q, event |-> "none", speech_prob |-> speech_prob ]

\* process with the minimum-speech test written > instead of >=
process_late(p, speech_prob, n) ==
    LET is_speech == speech_prob >= p.threshold IN
    IF is_speech
    THEN LET q == [p EXCEPT !.speech_samples = @ + n, !.silence_samples = 0] IN
         IF ~q.is_speaking /\ q.speech_samples > q.min_speech_samples
         THEN [ proc |-> [q EXCEPT !.is_speaking = TRUE],
                event |-> "speech_start", speech_prob |-> speech_prob ]
         ELSE [ proc |-> q, event |-> "none", speech_prob |-> speech_prob ]
    ELSE LET q == [p EXCEPT !.silence_samples = @ + n] IN
         IF q.is_speaking /\ q.silence_samples >= q.min_silence_samples
         THEN [ proc |-> [q EXCEPT !.is_speaking = FALSE, !.speech_samples = 0],
                event |-> "speech_end", speech_prob |-> speech_prob ]
         ELSE [ proc |-> q, event |-> "none", speech_prob |-> speech_prob ]

\* process that clears the speech run on every silent frame
process_clear_run(p, speech_prob, n) ==
    LET is_speech == speech_prob >= p.threshold IN
    IF is_speech
    THEN LET q == [p EXCEPT !.speech_samples = @ + n, !.silence_samples = 0] IN
         IF ~q.is_speaking /\ q.speech_samples >= q.min_speech_samples
         THEN [ proc |-> [q EXCEPT !.is_speaking = TRUE],
                event |-> "speech_start", speech_prob |-> speech_prob ]
         ELSE [ proc |-> q, event |-> "none", speech_prob |-> speech_prob ]
    ELSE LET q == [p EXCEPT !.silence_samples = @ + n, !.speech_samples = 0] IN
         IF q.is_speaking /\ q.silence_samples >= q.min_silence_samples
         THEN [ proc |-> [q EXCEPT !.is_speaking = FALSE],
                event |-> "speech_end", speech_prob |-> speech_prob ]
         ELSE [ proc |-> q, event |-> "none", speech_prob |-> speech_prob ]

\* process that reports the level instead of the edge: it does not look at
\* is_speaking before it emits
process_level(p, speech_prob, n) ==
    LET is_speech == speech_prob >= p.threshold IN
    IF is_speech
    THEN LET q == [p EXCEPT !.speech_samples = @ + n, !.silence_samples = 0] IN
         IF q.speech_samples >= q.min_speech_samples
         THEN [ proc |-> [q EXCEPT !.is_speaking = TRUE],
                event |-> "speech_start", speech_prob |-> speech_prob ]
         ELSE [ proc |-> q, event |-> "none", speech_prob |-> speech_prob ]
    ELSE LET q == [p EXCEPT !.silence_samples = @ + n] IN
         IF q.silence_samples >= q.min_silence_samples
         THEN [ proc |-> [q EXCEPT !.is_speaking = FALSE, !.speech_samples = 0],
                event |-> "speech_end", speech_prob |-> speech_prob ]
         ELSE [ proc |-> q, event |-> "none", speech_prob |-> speech_prob ]

\* process that leaves the silence run alone on a speech frame
process_keep_silence(p, speech_prob, n) ==
    LET is_speech == speech_prob >= p.threshold IN
    IF is_speech
    THEN LET q == [p EXCEPT !.speech_samples = @ + n] IN
         IF ~q.is_speaking /\ q.speech_samples >= q.min_speech_samples
         THEN [ proc |-> [q EXCEPT !.is_speaking = TRUE],
                event |-> "speech_start", speech_prob |-> speech_prob ]
         ELSE [ proc |-> q, event |-> "none", speech_prob |-> speech_prob ]
    ELSE LET q == [p EXCEPT !.silence_samples = @ + n] IN
         IF q.is_speaking /\ q.silence_samples >= q.min_silence_samples
         THEN [ proc |-> [q EXCEPT !.is_speaking = FALSE, !.speech_samples = 0],
                event |-> "speech_end", speech_prob |-> speech_prob ]
         ELSE [ proc |-> q, event |-> "none", speech_prob |-> speech_prob ]

\* BaseVADProcessor.process after speech_prob is known; n = len(audio_chunk)
process(p, speech_prob, n) ==
    LET is_speech == speech_prob >= p.threshold IN
    IF is_speech
    THEN LET q == [p EXCEPT !.speech_samples = @ + n, !.silence_samples = 0] IN
         IF ~q.is_speaking /\ q.speech_samples >= q.min_speech_samples
         THEN [ proc |-> [q EXCEPT !.is_speaking = TRUE],
                event |-> "speech_start", speech_prob |-> speech_prob ]
         ELSE [ proc |-> q, event |-> "none", speech_prob |-> speech_prob ]
    ELSE LET q == [p EXCEPT !.silence_samples = @ + n] IN
         IF q.is_speaking /\ q.silence_samples >= q.min_silence_samples
         THEN [ proc |-> [q EXCEPT !.is_speaking = FALSE, !.speech_samples = 0],
                event |-> "speech_end", speech_prob |-> speech_prob ]
         ELSE [ proc |-> q, event |-> "none", speech_prob |-> speech_prob ]

\* update_params that also restarts the run counters
update_params_restart(p, threshold, min_speech_ms, min_silence_ms) ==
    [p EXCEPT
        !.threshold = IF threshold # None THEN threshold[1] ELSE @,
        !.min_speech_samples =
            IF min_speech_ms # None THEN ms_to_samples(min_speech_ms[1]) ELSE @,
        !.min_silence_samples =
            IF min_silence_ms # None THEN ms_to_samples(min_silence_ms[1]) ELSE @,
        !.speech_samples = 0,
        !.silence_samples = 0]

\* update_params that takes the durations and ignores the threshold
update_params_keep_threshold(p, threshold, min_speech_ms, min_silence_ms) ==
    [p EXCEPT
        !.min_speech_samples =
            IF min_speech_ms # None THEN ms_to_samples(min_speech_ms[1]) ELSE @,
        !.min_silence_samples =
            IF min_silence_ms # None THEN ms_to_samples(min_silence_ms[1]) ELSE @]

\* update_params that applies the new minimum speech duration at once: a
\* Silent processor whose run already reaches it becomes Speaking
update_params_apply(p, threshold, min_speech_ms, min_silence_ms) ==
    LET q == [p EXCEPT
                !.threshold = IF threshold # None THEN threshold[1] ELSE @,
                !.min_speech_samples =
                    IF min_speech_ms # None THEN ms_to_samples(min_speech_ms[1]) ELSE @,
                !.min_silence_samples =
                    IF min_silence_ms # None THEN ms_to_samples(min_silence_ms[1]) ELSE @]
    IN IF ~q.is_speaking /\ q.speech_samples >= q.min_speech_samples
       THEN [q EXCEPT !.is_speaking = TRUE] ELSE q

\* BaseVADProcessor.update_params; each argument is None or Some(value)
update_params(p, threshold, min_speech_ms, min_silence_ms) ==
    [p EXCEPT
        !.threshold = IF threshold # None THEN threshold[1] ELSE @,
        !.min_speech_samples =
            IF min_speech_ms # None THEN ms_to_samples(min_speech_ms[1]) ELSE @,
        !.min_silence_samples =
            IF min_silence_ms # None THEN ms_to_samples(min_silence_ms[1]) ELSE @]

-----------------------------------------------------------------------------
(* The backends' _get_speech_prob *)

\* Probabilities an opaque classifier (TEN, Silero) may return: 0.1, 0.5, 0.9
Probs == {Prob(1), Prob(5), Prob(9)}

\* WebRTCVADProcessor._get_speech_prob: the number of samples handed to the
\* native classifier for an input of n samples
webrtc_frame_len(n) ==
    LET frame_duration_ms == (n * 1000) \div SAMPLE_RATE
        frame_size30 == (SAMPLE_RATE * 30) \div 1000
        frame_size10 == (SAMPLE_RATE * 10) \div 1000
    IN IF frame_duration_ms \in {10, 20, 30} THEN n
       ELSE IF n >= frame_size30 THEN frame_size30
       ELSE frame_size10

\* webrtcvad.Vad.is_speech raises for a frame that is not 10, 20 or 30 ms
webrtc_native_ok(n) == webrtc_frame_len(n) \in {160, 320, 480}

Sum(h) == LET RECURSIVE S(_)
              S(i) == IF i = 0 THEN 0 ELSE h[i] + S(i - 1)
          IN S(Len(h))

\* a _get_speech_prob that never drops the oldest entry of the window
webrtc_get_speech_prob_no_pop(p, n, is_speech) ==
    IF ~webrtc_native_ok(n)
    THEN [ proc |-> p,
           speech_prob |-> IF p._history # << >>
                           THEN p._history[Len(p._history)] * ProbDen ELSE 0 ]
    ELSE LET h1 == Append(p._history, IF is_speech THEN 1 ELSE 0)
         IN [ proc |-> [p EXCEPT !._history = h1],
              speech_prob |-> (Sum(h1) * ProbDen) \div Len(h1) ]

\* WebRTCVADProcessor._get_speech_prob given the native answer; the entries
\* of _history are 0 or 1 and the result is their mean
webrtc_get_speech_prob(p, n, is_speech) ==
    IF ~webrtc_native_ok(n)
    THEN [ proc |-> p,
           speech_prob |-> IF p._history # << >>
                           THEN p._history[Len(p._history)] * ProbDen ELSE 0 ]
    ELSE LET h1 == Append(p._history, IF is_speech THEN 1 ELSE 0)
             h2 == IF Len(h1) > HISTORY_SIZE THEN Tail(h1) ELSE h1
         IN [ proc |-> [p EXCEPT !._history = h2],
              speech_prob |-> (Sum(h2) * ProbDen) \div Len(h2) ]

\* SileroONNXVADProcessor._get_speech_prob: session.run returns the next state
onnx_absorb(p) == [p EXCEPT !._state = @ + 1]

\* A native model object (TenVad, the torch Silero model) absorbing one frame
model_absorb(model) == [model EXCEPT !.state = @ + 1]

-----------------------------------------------------------------------------
(* create_vad_processor and the lazily loaded globals *)

\* A module global before its loader has run; `loads` counts the runs of the
\* loader that succeeded, so it names the instance the global holds
Unloaded == [loaded |-> FALSE, state |-> 0, loads |-> 0]

Loaded(name) ==
    CASE name = "ten" -> _ten_vad_instance.loaded
      [] name = "webrtc" -> _webrtc_vad_instance.loaded
      [] name = "silero_onnx" -> _onnx_session.loaded
      [] name = "silero_torch" -> _vad_model.loaded
      [] OTHER -> FALSE

\* a getter that builds a new instance on every call
after_load_again(g, mine, name) ==
    IF name = mine
    THEN [loaded |-> TRUE, state |-> 0, loads |-> g.loads + 1]
    ELSE g

\* get_ten_vad / get_webrtc_vad / get_onnx_session / get_silero_model:
\* the global is set on the first successful load and returned afterwards
after_load(g, mine, name) ==
    IF name = mine /\ ~g.loaded
    THEN [g EXCEPT !.loaded = TRUE, !.loads = @ + 1]
    ELSE g

\* a factory that builds a processor for any name in any environment
can_create_always(name, load_ok) == TRUE

\* create_vad_processor returns a processor unless the name is funasr or
\* unknown, or the backend's module, model file or runtime cannot be loaded
\* (load_ok is the outcome of a load that has to run)
can_create(name, load_ok) == name \in Backends /\ (Loaded(name) \/ load_ok)

LoadOutcomes(name) == IF name \in Backends /\ ~Loaded(name) THEN BOOLEAN ELSE {TRUE}

-----------------------------------------------------------------------------
(* Byte strings and the frame buffer of vad_websocket                       *)
(*                                                                         *)
(* A byte string is kept as the sequence of its maximal runs of            *)
(* consecutive stream offsets, [lo |-> a, hi |-> b] standing for the bytes *)
(* a, a+1, ..., b.  Two byte strings are equal exactly when they hold the  *)
(* same offsets in the same order.                                         *)

Min(a, b) == IF a <= b THEN a ELSE b

RunLen(r) == r.hi - r.lo + 1

\* len(bytes)
RECURSIVE BLen(_)
BLen(buf) == IF buf = << >> THEN 0 ELSE RunLen(Head(buf)) + BLen(Tail(buf))

\* a + b on bytes
Concat(a, b) ==
    IF a = << >> THEN b
    ELSE IF b = << >> THEN a
    ELSE IF a[Len(a)].hi + 1 = b[1].lo
    THEN SubSeq(a, 1, Len(a) - 1)
             \o << [lo |-> a[Len(a)].lo, hi |-> b[1].hi] >> \o Tail(b)
    ELSE a \o b

\* audio_buffer[:n]
RECURSIVE take(_, _)
take(buf, n) ==
    IF n <= 0 \/ buf = << >> THEN << >>
    ELSE IF RunLen(Head(buf)) <= n
    THEN << Head(buf) >> \o take(Tail(buf), n - RunLen(Head(buf)))
    ELSE << [lo |-> Head(buf).lo, hi |-> Head(buf).lo + n - 1] >>

\* audio_buffer[n:]
RECURSIVE drop(_, _)
drop(buf, n) ==
    IF n <= 0 \/ buf = << >> THEN buf
    ELSE IF RunLen(Head(buf)) <= n
    THEN drop(Tail(buf), n - RunLen(Head(buf)))
    ELSE << [lo |-> Head(buf).lo + n, hi |-> Head(buf).hi] >> \o Tail(buf)

\* a slice that keeps half of the frame for overlap, as vad_server.py does
drop_overlap(buf, n) == drop(buf, n \div 2)

\* the rest of the buffer after a frame of n bytes was taken
rest(buf, n) == drop(buf, n)

\* message["bytes"] of a binary message: the next len bytes of the stream
stream_bytes(from, len) ==
    IF len <= 0 THEN << >> ELSE << [lo |-> from, hi |-> from + len - 1] >>

\* bytes_needed = chunk_size * 2
bytes_needed == chunk_size * 2

\* len(np.frombuffer(chunk_bytes, dtype=np.int16))
samples_of(bytes) == BLen(bytes) \div 2

\* while len(audio_buffer) >= bytes_needed
more_frames(buf) == BLen(buf) >= bytes_needed

-----------------------------------------------------------------------------
(* Outbound events *)

speech_start_json(speech_prob) ==
    [ event |-> "speech_start", text |-> "speech_start", is_speaking |-> TRUE,
      speech_prob |-> speech_prob ]

speech_end_json(speech_prob) ==
    [ event |-> "speech_end", text |-> "", is_speaking |-> FALSE,
      is_final |-> TRUE, speech_prob |-> speech_prob ]

\* a sender that reports the configured default instead of the frame's value
send_event_default_prob(out, result) ==
    CASE result.event = "speech_start" ->
            Append(out, speech_start_json(DEFAULT_THRESHOLD))
      [] result.event = "speech_end" ->
            Append(out, speech_end_json(DEFAULT_THRESHOLD))
      [] OTHER -> out

\* if result['event']: await websocket.send_json(...)
send_event(out, result) ==
    CASE result.event = "speech_start" ->
            Append(out, speech_start_json(result.speech_prob))
      [] result.event = "speech_end" ->
            Append(out, speech_end_json(result.speech_prob))
      [] OTHER -> out

-----------------------------------------------------------------------------
(* Inputs *)

\* Names a client or the settings may give: the four backends, the
\* unimplemented funasr, and a name nothing knows
BackendNames == Backends \cup {"funasr", "bogus"}

ParamKeys == {"threshold", "min_speech_ms", "min_silence_ms"}

ParamValues == [threshold |-> Prob(9), min_speech_ms |-> 32, min_silence_ms |-> 64]

\* config with key k set to v
With(config, k, v) ==
    [x \in DOMAIN config \cup {k} |-> IF x = k THEN v ELSE config[x]]

\* JSON objects carrying any subset of the three parameters
UpdateMsgs == {[k \in S |-> ParamValues[k]] : S \in SUBSET ParamKeys}

\* A backend name alone, or with all three parameters
BackendMsgs ==
    {With(c, "backend", b) : c \in {<< >>, ParamValues}, b \in BackendNames}

\* reset alone, with a parameter, or with a backend name
ResetMsgs ==
    {With(c, "reset", TRUE) :
        c \in {<< >>, [threshold |-> ParamValues.threshold]}
               \cup {With(<< >>, "backend", b) : b \in BackendNames}}

TerminateMsgs == {[is_speaking |-> FALSE]}

TextConfigs == UpdateMsgs \cup BackendMsgs \cup ResetMsgs \cup TerminateMsgs

\* Byte lengths of binary messages: all odd, so every message boundary falls
\* inside a sample; 301 + 659 is one 480-sample frame, 301 + 1747 is 2048
MsgLens == {301, 659, 1747}

-----------------------------------------------------------------------------
(* vad_websocket *)

\* `vad_processor` before create_vad_processor has returned
NoProcessor == NewProcessor("none", 0, 0, 0)

\* fed.native_error: the native classifier raised on the frame;
\* fed.fault: the exception that ended the frame's pass of the loop, if any
NoFrame == [kind |-> "none", samples |-> 0, speech_prob |-> 0, event |-> "none",
            native_error |-> FALSE, fault |-> "none"]

\* the subclass's _get_speech_prob, as far as it changes the processor
get_speech_prob(p, n, prob, is_speech) ==
    CASE p.kind = "webrtc" -> webrtc_get_speech_prob(p, n, is_speech)
      [] p.kind = "silero_onnx" -> [proc |-> onnx_absorb(p), speech_prob |-> prob]
      [] OTHER -> [proc |-> p, speech_prob |-> prob]

\* vad_processor.process(audio_float) for the processor's class
run_vad(p, n, prob, is_speech) ==
    LET g == get_speech_prob(p, n, prob, is_speech)
    IN process(g.proc, g.speech_prob, n)

NativeProbs(p) == IF p.kind = "webrtc" THEN {0} ELSE Probs

NativeBools(p) == IF p.kind = "webrtc" THEN BOOLEAN ELSE {FALSE}

\* Python truthiness of config.get(k) for a JSON boolean or an absent key
Truthy(opt) == opt # None /\ opt[1]

\* a handler that takes no message for the end signal
never_terminate(config) == FALSE

\* config.get("is_speaking") == False: the client's end signal
is_terminate(config) == Get(config, "is_speaking") = Some(FALSE)

\* a handler that leaves the loop without its finally block
no_teardown(p) == p

\* finally: vad_processor.reset(), run however the loop was left
finally_reset(p) == reset(p)

\* except Exception / return self._history[-1] if self._history else 0.0:
\* what WebRTCVADProcessor._get_speech_prob answers when the native call raises
webrtc_fallback_prob(p) ==
    IF p._history # << >> THEN p._history[Len(p._history)] * ProbDen ELSE 0

\* websocket.accept() and the creation of the processor (lines 111-134)
Accept ==
    /\ pc = "accept"
    /\ backend' = VAD_BACKEND
    /\ chunk_size' = get_chunk_size(VAD_BACKEND)
    /\ \E load_ok \in LoadOutcomes(VAD_BACKEND) :
        IF can_create(VAD_BACKEND, load_ok)
        THEN /\ vad_processor' = NewProcessor(VAD_BACKEND, DEFAULT_THRESHOLD,
                                   DEFAULT_MIN_SPEECH_MS, DEFAULT_MIN_SILENCE_MS)
             /\ _ten_vad_instance' = after_load(_ten_vad_instance, "ten", VAD_BACKEND)
             /\ _webrtc_vad_instance' =
                    after_load(_webrtc_vad_instance, "webrtc", VAD_BACKEND)
             /\ _onnx_session' = after_load(_onnx_session, "silero_onnx", VAD_BACKEND)
             /\ _vad_model' = after_load(_vad_model, "silero_torch", VAD_BACKEND)
             /\ pc' = "recv"
        ELSE /\ pc' = "closed"
             /\ UNCHANGED << vad_processor, globals >>
    /\ UNCHANGED << VAD_BACKEND, audio_buffer, frame_count, chunk_bytes, sent, fed,
                    message, rx, nmsg, switched, calls, other_processor >>

\* A text message whose JSON parses to the object config (lines 141-177)
ReceiveText(config) ==
    /\ pc = "recv"
    /\ nmsg' = nmsg + 1
    /\ message' = [type |-> "text", json |-> TRUE, config |-> config]
    /\ LET terminate == is_terminate(config)
           new_backend == GetOr(config, "backend", "")
           wants_switch == new_backend # "" /\ new_backend # backend
       IN \E load_ok \in (IF terminate \/ ~wants_switch THEN {TRUE}
                          ELSE LoadOutcomes(new_backend)) :
          LET created == ~terminate /\ wants_switch /\ can_create(new_backend, load_ok)
              name == IF created THEN new_backend ELSE ""
              p1 == IF terminate THEN vad_processor
                    ELSE IF wants_switch
                    THEN IF created
                         THEN NewProcessor(new_backend,
                                  GetOr(config, "threshold", DEFAULT_THRESHOLD),
                                  GetOr(config, "min_speech_ms", DEFAULT_MIN_SPEECH_MS),
                                  GetOr(config, "min_silence_ms", DEFAULT_MIN_SILENCE_MS))
                         ELSE vad_processor
                    ELSE update_params(vad_processor, Get(config, "threshold"),
                             Get(config, "min_speech_ms"), Get(config, "min_silence_ms"))
              do_reset == terminate \/ Truthy(Get(config, "reset"))
              m1 == after_load(_vad_model, "silero_torch", name)
          IN /\ vad_processor' = IF terminate THEN finally_reset(p1)
                                ELSE IF do_reset THEN reset(p1) ELSE p1
             /\ _vad_model' = IF do_reset THEN reset_model(p1, m1) ELSE m1
             /\ _ten_vad_instance' = after_load(_ten_vad_instance, "ten", name)
             /\ _webrtc_vad_instance' = after_load(_webrtc_vad_instance, "webrtc", name)
             /\ _onnx_session' = after_load(_onnx_session, "silero_onnx", name)
             /\ backend' = IF created THEN new_backend ELSE backend
             /\ chunk_size' = IF created THEN get_chunk_size(new_backend) ELSE chunk_size
             /\ switched' = (switched \/ created)
             /\ pc' = IF terminate THEN "closed" ELSE "recv"
    /\ UNCHANGED << VAD_BACKEND, audio_buffer, frame_count, chunk_bytes, sent, fed, rx,
                    calls, other_processor >>

\* a handler for which text that is not JSON is an error like any other: it
\* leaves the loop and the finally block ends the session
RecvBadTextFatal ==
    /\ pc = "recv"
    /\ nmsg < MaxMsgs
    /\ nmsg' = nmsg + 1
    /\ message' = [type |-> "text", json |-> FALSE]
    /\ pc' = "closed"
    /\ vad_processor' = reset(vad_processor)
    /\ UNCHANGED << VAD_BACKEND, backend, chunk_size, audio_buffer, frame_count,
                    chunk_bytes, globals, sent, fed, rx, switched, calls,
                    other_processor >>

\* A text message that is not JSON: json.loads raises JSONDecodeError, which
\* is passed over, and the message has no "bytes" (lines 142-143, 178-182)
RecvBadText ==
    /\ pc = "recv"
    /\ nmsg < MaxMsgs
    /\ nmsg' = nmsg + 1
    /\ message' = [type |-> "text", json |-> FALSE]
    /\ UNCHANGED << VAD_BACKEND, pc, backend, chunk_size, vad_processor, audio_buffer,
                    frame_count, chunk_bytes, globals, sent, fed, rx, switched,
                    calls, other_processor >>

\* A binary message of len bytes is appended to the buffer (lines 182-192)
ReceiveBytes(len) ==
    /\ pc = "recv"
    /\ nmsg' = nmsg + 1
    /\ message' = [type |-> "bytes", len |-> len, frames_before |-> frame_count]
    /\ audio_buffer' = Concat(audio_buffer, stream_bytes(rx, len))
    /\ rx' = rx + len
    /\ pc' = IF more_frames(audio_buffer') THEN "frames" ELSE "recv"
    /\ UNCHANGED << VAD_BACKEND, backend, chunk_size, vad_processor, frame_count,
                    chunk_bytes, globals, sent, fed, switched, calls, other_processor >>

\* One pass of the while loop: slice a frame, classify it, send its event
\* (lines 192-230)
ClassifyFrame(prob, is_speech) ==
    /\ pc = "frames"
    /\ frame_count' = frame_count + 1
    /\ chunk_bytes' = take(audio_buffer, bytes_needed)
    /\ audio_buffer' = rest(audio_buffer, bytes_needed)
    /\ LET n == samples_of(chunk_bytes')
           result == run_vad(vad_processor, n, prob, is_speech)
       IN /\ vad_processor' = result.proc
          /\ sent' = send_event(sent, result)
          /\ fed' = [kind |-> vad_processor.kind, samples |-> n,
                     speech_prob |-> result.speech_prob, event |-> result.event,
                     native_error |-> FALSE, fault |-> "none"]
    /\ _ten_vad_instance' = IF vad_processor.kind = "ten"
                            THEN model_absorb(_ten_vad_instance) ELSE _ten_vad_instance
    /\ _vad_model' = IF vad_processor.kind = "silero_torch"
                     THEN model_absorb(_vad_model) ELSE _vad_model
    /\ pc' = IF more_frames(audio_buffer') THEN "frames" ELSE "recv"
    /\ UNCHANGED << VAD_BACKEND, backend, chunk_size, _webrtc_vad_instance,
                    _onnx_session, message, rx, nmsg, switched, calls, other_processor >>

\* The native classifier raises on the frame just sliced.  The WebRTC class
\* catches it and answers its last history entry (webrtc_vad.py:78-82), and
\* process() goes on with that value.  The other classes let it through:
\* it leaves process() and the loop, is caught by `except Exception`, and the
\* finally block ends the session (lines 192-204, 234-240)
ClassifyFrameError ==
    /\ pc = "frames"
    /\ frame_count' = frame_count + 1
    /\ chunk_bytes' = take(audio_buffer, bytes_needed)
    /\ audio_buffer' = rest(audio_buffer, bytes_needed)
    /\ LET n == samples_of(chunk_bytes') IN
       IF vad_processor.kind = "webrtc"
       THEN LET result == process(vad_processor, webrtc_fallback_prob(vad_processor), n)
            IN /\ vad_processor' = result.proc
               /\ sent' = send_event(sent, result)
               /\ fed' = [kind |-> vad_processor.kind, samples |-> n,
                          speech_prob |-> result.speech_prob, event |-> result.event,
                          native_error |-> TRUE, fault |-> "none"]
               /\ pc' = IF more_frames(audio_buffer') THEN "frames" ELSE "recv"
               /\ UNCHANGED _vad_model
       ELSE /\ vad_processor' = finally_reset(vad_processor)
            /\ _vad_model' = reset_model(vad_processor, _vad_model)
            /\ sent' = sent
            /\ fed' = [kind |-> vad_processor.kind, samples |-> n,
                       speech_prob |-> 0, event |-> "none",
                       native_error |-> TRUE, fault |-> "classify"]
            /\ pc' = "closed"
    /\ UNCHANGED << VAD_BACKEND, backend, chunk_size, _ten_vad_instance,
                    _webrtc_vad_instance, _onnx_session, message, rx, nmsg,
                    switched, calls, other_processor >>

\* The frame just sliced is classified and has an event, but the client is
\* gone and send_json raises: the exception leaves the loop, is caught, and
\* the finally block ends the session (lines 204-225, 232-240)
ClassifyFrameSendFails(prob, is_speech) ==
    /\ pc = "frames"
    /\ frame_count' = frame_count + 1
    /\ chunk_bytes' = take(audio_buffer, bytes_needed)
    /\ audio_buffer' = rest(audio_buffer, bytes_needed)
    /\ LET n == samples_of(chunk_bytes')
           result == run_vad(vad_processor, n, prob, is_speech)
           m1 == IF vad_processor.kind = "silero_torch"
                 THEN model_absorb(_vad_model) ELSE _vad_model
       IN /\ result.event # "none"
          /\ vad_processor' = finally_reset(result.proc)
          /\ _vad_model' = reset_model(result.proc, m1)
          /\ fed' = [kind |-> vad_processor.kind, samples |-> n,
                     speech_prob |-> result.speech_prob, event |-> result.event,
                     native_error |-> FALSE, fault |-> "send"]
    /\ _ten_vad_instance' = IF vad_processor.kind = "ten"
                            THEN model_absorb(_ten_vad_instance) ELSE _ten_vad_instance
    /\ sent' = sent
    /\ pc' = "closed"
    /\ UNCHANGED << VAD_BACKEND, backend, chunk_size, _webrtc_vad_instance,
                    _onnx_session, message, rx, nmsg, switched, calls,
                    other_processor >>

\* The client goes away while the handler waits in receive(): the finally
\* block resets the processor (lines 232-240)
Disconnect ==
    /\ pc = "recv"
    /\ pc' = "closed"
    /\ message' = [type |-> "disconnect"]
    /\ vad_processor' = finally_reset(vad_processor)
    /\ _vad_model' = reset_model(vad_processor, _vad_model)
    /\ UNCHANGED << VAD_BACKEND, backend, chunk_size, audio_buffer, frame_count,
                    chunk_bytes, _ten_vad_instance, _webrtc_vad_instance,
                    _onnx_session, sent, fed, rx, nmsg, switched, calls, other_processor >>

RecvBinary(len) == nmsg < MaxMsgs /\ ReceiveBytes(len)

RecvText(config) == nmsg < MaxMsgs /\ ReceiveText(config)

Init ==
    /\ VAD_BACKEND \in BackendNames
    /\ pc = "accept"
    /\ backend = ""
    /\ chunk_size = 0
    /\ vad_processor = NoProcessor
    /\ audio_buffer = << >>
    /\ frame_count = 0
    /\ chunk_bytes = << >>
    /\ _ten_vad_instance = Unloaded
    /\ _webrtc_vad_instance = Unloaded
    /\ _onnx_session = Unloaded
    /\ _vad_model = Unloaded
    /\ sent = << >>
    /\ fed = NoFrame
    /\ message = [type |-> "none"]
    /\ rx = 0
    /\ nmsg = 0
    /\ switched = FALSE
    /\ calls = << >>
    /\ other_processor = NoProcessor

Next ==
    \/ Accept
    \/ \E config \in TextConfigs : RecvText(config)
    \/ RecvBadText
    \/ \E len \in MsgLens : RecvBinary(len)
    \/ \E prob \in NativeProbs(vad_processor), is_speech \in NativeBools(vad_processor) :
          ClassifyFrame(prob, is_speech)
    \/ ClassifyFrameError
    \/ \E prob \in NativeProbs(vad_processor), is_speech \in NativeBools(vad_processor) :
          ClassifyFrameSendFails(prob, is_speech)
    \/ Disconnect

Spec == Init /\ [][Next]_vars

-----------------------------------------------------------------------------
(* The life of the module globals: connections that come one after another, *)
(* backend switches and health checks, all through the same getters.        *)

\* The next client connects after the handler of the one before has
\* returned: a new call of vad_websocket, with new locals and the globals
\* as they are (lines 108-134)
Reconnect ==
    /\ pc = "closed"
    /\ pc' = "accept"
    /\ backend' = ""
    /\ chunk_size' = 0
    /\ vad_processor' = NoProcessor
    /\ audio_buffer' = << >>
    /\ frame_count' = 0
    /\ chunk_bytes' = << >>
    /\ sent' = << >>
    /\ fed' = NoFrame
    /\ message' = [type |-> "reconnect"]
    /\ rx' = 0
    /\ nmsg' = 0
    /\ switched' = FALSE
    /\ UNCHANGED << VAD_BACKEND, globals, calls, other_processor >>

\* GET /vad/health: health_check_backend(get_vad_backend()) calls the getter
\* of the configured backend inside a try (lines 69-90, 243-249)
HealthCheck ==
    /\ pc # "frames"
    /\ \E load_ok \in LoadOutcomes(VAD_BACKEND) :
          LET name == IF can_create(VAD_BACKEND, load_ok) THEN VAD_BACKEND ELSE ""
          IN /\ _ten_vad_instance' = after_load(_ten_vad_instance, "ten", name)
             /\ _webrtc_vad_instance' = after_load(_webrtc_vad_instance, "webrtc", name)
             /\ _onnx_session' = after_load(_onnx_session, "silero_onnx", name)
             /\ _vad_model' = after_load(_vad_model, "silero_torch", name)
    /\ UNCHANGED << VAD_BACKEND, pc, backend, chunk_size, vad_processor, audio_buffer,
                    frame_count, chunk_bytes, sent, fed, message, rx, nmsg, switched,
                    calls, other_processor >>

LoadNext ==
    \/ Accept
    \/ \E config \in BackendMsgs : RecvText(config)
    \/ Disconnect
    \/ Reconnect
    \/ HealthCheck

SpecLoad == Init /\ [][LoadNext]_vars

-----------------------------------------------------------------------------
(* Two connections in one server process.  The handler of each connection   *)
(* is a coroutine of the same event loop and runs from one await to the     *)
(* next; the module globals of the backends are shared by all of them.  The *)
(* first connection is modelled in full; of the other one, its processor    *)
(* and what its frames and its teardown do to the shared globals.           *)

Ended == [NoProcessor EXCEPT !.kind = "ended"]

\* The handler of the first connection is suspended at an await, where the
\* event loop can run another coroutine: accept(), receive(), the send_json
\* of the event of the frame just classified, or it has returned.  Between
\* two frames without an event the loop of lines 192-230 has no await.
Yielded ==
    IF pc # "frames" THEN TRUE
    ELSE frame_count > message.frames_before /\ fed.event # "none"

\* The other connection is accepted: it reads the same settings.VAD_BACKEND
\* and the getter returns the global that is already loaded (lines 111-134)
OtherAccept ==
    /\ Yielded
    /\ other_processor = NoProcessor
    /\ pc # "accept"
    /\ Loaded(VAD_BACKEND)
    /\ other_processor' = NewProcessor(VAD_BACKEND, DEFAULT_THRESHOLD,
                              DEFAULT_MIN_SPEECH_MS, DEFAULT_MIN_SILENCE_MS)
    /\ UNCHANGED << VAD_BACKEND, pc, backend, chunk_size, vad_processor, audio_buffer,
                    frame_count, chunk_bytes, globals, sent, fed, message, rx, nmsg,
                    switched, calls >>

\* The other connection classifies one frame (lines 192-204)
OtherFrame(prob, is_speech) ==
    /\ Yielded
    /\ other_processor.kind \in Backends
    /\ other_processor.speech_samples + other_processor.silence_samples
          < MaxOtherFrames * CHUNK_SIZES[other_processor.kind]
    /\ other_processor' =
          run_vad(other_processor, CHUNK_SIZES[other_processor.kind], prob,
                  is_speech).proc
    /\ _ten_vad_instance' = IF other_processor.kind = "ten"
                            THEN model_absorb(_ten_vad_instance) ELSE _ten_vad_instance
    /\ _vad_model' = IF other_processor.kind = "silero_torch"
                     THEN model_absorb(_vad_model) ELSE _vad_model
    /\ UNCHANGED << VAD_BACKEND, pc, backend, chunk_size, vad_processor, audio_buffer,
                    frame_count, chunk_bytes, _webrtc_vad_instance, _onnx_session,
                    sent, fed, message, rx, nmsg, switched, calls >>

\* The other connection ends: its finally block resets its processor
\* (lines 232-240)
OtherEnd ==
    /\ Yielded
    /\ other_processor.kind \in Backends
    /\ other_processor' = Ended
    /\ _vad_model' = reset_model(other_processor, _vad_model)
    /\ UNCHANGED << VAD_BACKEND, pc, backend, chunk_size, vad_processor, audio_buffer,
                    frame_count, chunk_bytes, _ten_vad_instance, _webrtc_vad_instance,
                    _onnx_session, sent, fed, message, rx, nmsg, switched, calls >>

\* Control messages of the first connection: resets, and an update that
\* makes one 512-sample frame enough for a speech_start
TwoConfigs == ResetMsgs \cup {[min_speech_ms |-> ParamValues.min_speech_ms]}

TwoNext ==
    \/ Accept
    \/ \E config \in TwoConfigs : RecvText(config)
    \/ \E len \in MsgLens : RecvBinary(len)
    \/ \E prob \in NativeProbs(vad_processor), is_speech \in NativeBools(vad_processor) :
          ClassifyFrame(prob, is_speech)
    \/ Disconnect
    \/ OtherAccept
    \/ \E prob \in NativeProbs(other_processor),
          is_speech \in NativeBools(other_processor) : OtherFrame(prob, is_speech)
    \/ OtherEnd

SpecTwo == Init /\ [][TwoNext]_vars

-----------------------------------------------------------------------------
(* One connection followed over more messages, with fewer kinds of message:  *)
(* long enough for an utterance to begin, a control message to arrive, and   *)
(* audio to follow it                                                        *)

\* Messages one connection is followed for
MaxCtlMsgs == 4

\* reset, a shorter minimum speech duration, and a switch that carries all
\* three parameters
CtlConfigs ==
    {[reset |-> TRUE], [min_speech_ms |-> ParamValues.min_speech_ms]}
        \cup {With(ParamValues, "backend", b) : b \in {"ten", "webrtc"}}

\* Byte length of the binary messages
CtlMsgLens == {1747}

CtlNext ==
    \/ Accept
    \/ \E config \in CtlConfigs : nmsg < MaxCtlMsgs /\ ReceiveText(config)
    \/ \E len \in CtlMsgLens : nmsg < MaxCtlMsgs /\ ReceiveBytes(len)
    \/ \E prob \in NativeProbs(vad_processor), is_speech \in NativeBools(vad_processor) :
          ClassifyFrame(prob, is_speech)
    \/ Disconnect

SpecCtl == Init /\ [][CtlNext]_vars

-----------------------------------------------------------------------------
(* Text messages that parse as JSON but are not what the handler expects     *)

\* The threshold of a processor that was handed a str, as in
\* {"threshold": "0.9"}: update_params stores whatever is not None
StrThreshold == -1

\* Values of the wrong type for the three parameters
WrongTypeConfigs == {[k \in {key} |-> "0.9"] : key \in ParamKeys}

\* A text message whose JSON is not an object ([1], 5, "x", null):
\* config.get raises AttributeError (line 147), which the inner try, that
\* catches JSONDecodeError only, lets through; `except Exception` and the
\* finally block end the session (lines 178, 234-240)
RecvJsonNotObject ==
    /\ pc = "recv"
    /\ nmsg < MaxMsgs
    /\ nmsg' = nmsg + 1
    /\ message' = [type |-> "text", json |-> TRUE, object |-> FALSE]
    /\ vad_processor' = finally_reset(vad_processor)
    /\ _vad_model' = reset_model(vad_processor, _vad_model)
    /\ pc' = "closed"
    /\ UNCHANGED << VAD_BACKEND, backend, chunk_size, audio_buffer, frame_count,
                    chunk_bytes, _ten_vad_instance, _webrtc_vad_instance,
                    _onnx_session, sent, fed, rx, switched, calls, other_processor >>

\* A JSON object with one parameter given as a str.  update_params (base.py
\* 71-78) stores a str threshold as it is; for a duration it computes
\* int(min_speech_ms * self.sample_rate / 1000), where str * int is a str and
\* str / int raises TypeError, which ends the session like any exception
RecvWrongType(config) ==
    /\ pc = "recv"
    /\ nmsg < MaxMsgs
    /\ nmsg' = nmsg + 1
    /\ message' = [type |-> "text", json |-> TRUE, object |-> TRUE, config |-> config]
    /\ IF DOMAIN config = {"threshold"}
       THEN /\ vad_processor' = [vad_processor EXCEPT !.threshold = StrThreshold]
            /\ pc' = "recv"
            /\ UNCHANGED _vad_model
       ELSE /\ vad_processor' = finally_reset(vad_processor)
            /\ _vad_model' = reset_model(vad_processor, _vad_model)
            /\ pc' = "closed"
    /\ UNCHANGED << VAD_BACKEND, backend, chunk_size, audio_buffer, frame_count,
                    chunk_bytes, _ten_vad_instance, _webrtc_vad_instance,
                    _onnx_session, sent, fed, rx, switched, calls, other_processor >>

\* A frame classified by a processor whose threshold is a str: the backend
\* gives its probability, `speech_prob >= self.threshold` (base.py:45) raises
\* TypeError, and the exception ends the session (lines 204, 234-240)
ClassifyFrameTypeError(prob, is_speech) ==
    /\ pc = "frames"
    /\ vad_processor.threshold = StrThreshold
    /\ frame_count' = frame_count + 1
    /\ chunk_bytes' = take(audio_buffer, bytes_needed)
    /\ audio_buffer' = rest(audio_buffer, bytes_needed)
    /\ LET n == samples_of(chunk_bytes')
           g == get_speech_prob(vad_processor, n, prob, is_speech)
       IN /\ vad_processor' = finally_reset(g.proc)
          /\ fed' = [kind |-> vad_processor.kind, samples |-> n,
                     speech_prob |-> g.speech_prob, event |-> "none",
                     native_error |-> FALSE, fault |-> "type"]
    /\ _ten_vad_instance' = IF vad_processor.kind = "ten"
                            THEN model_absorb(_ten_vad_instance) ELSE _ten_vad_instance
    /\ _vad_model' = IF vad_processor.kind = "silero_torch"
                     THEN reset_model(vad_processor, model_absorb(_vad_model))
                     ELSE _vad_model
    /\ pc' = "closed"
    /\ UNCHANGED << VAD_BACKEND, backend, chunk_size, _webrtc_vad_instance,
                    _onnx_session, sent, message, rx, nmsg, switched, calls,
                    other_processor >>

\* Ordinary control messages sent along with them
JsonConfigs == TerminateMsgs \cup {[min_speech_ms |-> ParamValues.min_speech_ms]}

JsonNext ==
    \/ Accept
    \/ \E config \in JsonConfigs : RecvText(config)
    \/ RecvBadText
    \/ RecvJsonNotObject
    \/ \E config \in WrongTypeConfigs : RecvWrongType(config)
    \/ \E len \in MsgLens : RecvBinary(len)
    \/ \E prob \in NativeProbs(vad_processor), is_speech \in NativeBools(vad_processor) :
          vad_processor.threshold # StrThreshold /\ ClassifyFrame(prob, is_speech)
    \/ \E prob \in NativeProbs(vad_processor), is_speech \in NativeBools(vad_processor) :
          ClassifyFrameTypeError(prob, is_speech)
    \/ Disconnect

SpecJson == Init /\ [][JsonNext]_vars

-----------------------------------------------------------------------------
(* A processor driven directly: process() and reset() called on an object   *)
(* of one of the four classes, as create_processor returns it.  The WebRTC  *)
(* class accepts a chunk of any length (it pads or truncates); the native   *)
(* TEN and Silero models are given the chunk length they are built for.     *)

\* Chunk lengths, in samples, of the calls made on a processor
ProcLens(kind) == IF kind = "webrtc" THEN {1, 5, 10, 3999} ELSE {CHUNK_SIZES[kind]}

\* Constructor arguments tried: min_speech_ms = 1 is 16 samples
ProcThresholds == {Prob(5), Prob(6), Prob(9)}

ProcMinSpeechMs == {1, DEFAULT_MIN_SPEECH_MS}

ProcInit ==
    /\ VAD_BACKEND \in Backends
    /\ pc = "proc"
    /\ backend = VAD_BACKEND
    /\ chunk_size = get_chunk_size(VAD_BACKEND)
    /\ \E threshold \in ProcThresholds, min_speech_ms \in ProcMinSpeechMs :
          vad_processor =
              NewProcessor(VAD_BACKEND, threshold, min_speech_ms, BASE_MIN_SILENCE_MS)
    /\ audio_buffer = << >>
    /\ frame_count = 0
    /\ chunk_bytes = << >>
    /\ _ten_vad_instance = after_load(Unloaded, "ten", VAD_BACKEND)
    /\ _webrtc_vad_instance = after_load(Unloaded, "webrtc", VAD_BACKEND)
    /\ _onnx_session = after_load(Unloaded, "silero_onnx", VAD_BACKEND)
    /\ _vad_model = after_load(Unloaded, "silero_torch", VAD_BACKEND)
    /\ sent = << >>
    /\ fed = NoFrame
    /\ message = [type |-> "none"]
    /\ rx = 0
    /\ nmsg = 0
    /\ switched = FALSE
    /\ calls = << >>
    /\ other_processor = NoProcessor

\* vad_processor.process(chunk) with len(chunk) = n
ProcProcess(n, prob, is_speech) ==
    /\ pc = "proc"
    /\ Len(calls) < MaxCalls
    /\ LET result == run_vad(vad_processor, n, prob, is_speech)
       IN /\ vad_processor' = result.proc
          /\ calls' = Append(calls, [op |-> "process", n |-> n,
                                     speech_prob |-> result.speech_prob,
                                     event |-> result.event])
    /\ _ten_vad_instance' = IF vad_processor.kind = "ten"
                            THEN model_absorb(_ten_vad_instance) ELSE _ten_vad_instance
    /\ _vad_model' = IF vad_processor.kind = "silero_torch"
                     THEN model_absorb(_vad_model) ELSE _vad_model
    /\ UNCHANGED << VAD_BACKEND, pc, backend, chunk_size, audio_buffer, frame_count,
                    chunk_bytes, _webrtc_vad_instance, _onnx_session, sent, fed,
                    message, rx, nmsg, switched, other_processor >>

\* vad_processor.reset()
ProcReset ==
    /\ pc = "proc"
    /\ Len(calls) < MaxCalls
    /\ vad_processor' = reset(vad_processor)
    /\ _vad_model' = reset_model(vad_processor, _vad_model)
    /\ calls' = Append(calls, [op |-> "reset"])
    /\ UNCHANGED << VAD_BACKEND, pc, backend, chunk_size, audio_buffer, frame_count,
                    chunk_bytes, _ten_vad_instance, _webrtc_vad_instance,
                    _onnx_session, sent, fed, message, rx, nmsg, switched,
                    other_processor >>

ProcNext ==
    \/ \E n \in ProcLens(vad_processor.kind), prob \in NativeProbs(vad_processor),
          is_speech \in NativeBools(vad_processor) : ProcProcess(n, prob, is_speech)
    \/ ProcReset

SpecProc == ProcInit /\ [][ProcNext]_vars

-----------------------------------------------------------------------------
(* The end-to-end scenario: a session with the handler's defaults on a      *)
(* Silero backend (512-sample frames) receives, in messages cut anywhere,   *)
(* SpeechFrames frames' worth of audio that the model rates 0.9 and then    *)
(* SilenceFrames frames' worth that it rates 0.1.                           *)

\* The probability the model returns for the k-th frame of the scenario
ScenarioProb(k) == IF k <= SpeechFrames THEN Prob(9) ELSE Prob(1)

ScenarioBytes == (SpeechFrames + SilenceFrames) * bytes_needed

E2EInit ==
    /\ VAD_BACKEND \in {"silero_torch", "silero_onnx"}
    /\ pc = "recv"
    /\ backend = VAD_BACKEND
    /\ chunk_size = get_chunk_size(VAD_BACKEND)
    /\ vad_processor = NewProcessor(VAD_BACKEND, DEFAULT_THRESHOLD,
                                    DEFAULT_MIN_SPEECH_MS, DEFAULT_MIN_SILENCE_MS)
    /\ audio_buffer = << >>
    /\ frame_count = 0
    /\ chunk_bytes = << >>
    /\ _ten_vad_instance = Unloaded
    /\ _webrtc_vad_instance = Unloaded
    /\ _onnx_session = after_load(Unloaded, "silero_onnx", VAD_BACKEND)
    /\ _vad_model = after_load(Unloaded, "silero_torch", VAD_BACKEND)
    /\ sent = << >>
    /\ fed = NoFrame
    /\ message = [type |-> "none"]
    /\ rx = 0
    /\ nmsg = 0
    /\ switched = FALSE
    /\ calls = << >>
    /\ other_processor = NoProcessor

\* The client sends the next piece of the scenario's audio
E2EReceive ==
    /\ rx < ScenarioBytes
    /\ \E len \in MsgLens : ReceiveBytes(Min(len, ScenarioBytes - rx))

\* The handler classifies the next frame; the model answers as scripted
E2EClassify == ClassifyFrame(ScenarioProb(frame_count + 1), FALSE)

E2ENext == E2EReceive \/ E2EClassify

SpecE2E == E2EInit /\ [][E2ENext]_vars

-----------------------------------------------------------------------------
(* A WebRTC processor driven directly, long enough to fill its window        *)

\* Calls made on the WebRTC processor
MaxHistoryCalls == 7

\* Chunk lengths tried: 160 samples is a 10 ms frame, which the native
\* classifier takes; 161 samples is a frame it raises on
HistoryLens == {160, 161}

HistoryInit == ProcInit /\ VAD_BACKEND = "webrtc"

\* vad_processor.process(chunk) with len(chunk) = n, the native classifier
\* answering is_speech when it takes the frame
HistoryProcess(n, is_speech) ==
    /\ pc = "proc"
    /\ Len(calls) < MaxHistoryCalls
    /\ LET result == run_vad(vad_processor, n, 0, is_speech)
       IN /\ vad_processor' = result.proc
          /\ calls' = Append(calls, [op |-> "process", n |-> n,
                                     speech_prob |-> result.speech_prob,
                                     event |-> result.event,
                                     ok |-> webrtc_native_ok(n),
                                     is_speech |-> is_speech])
    /\ UNCHANGED << VAD_BACKEND, pc, backend, chunk_size, audio_buffer, frame_count,
                    chunk_bytes, globals, sent, fed, message, rx, nmsg, switched,
                    other_processor >>

\* vad_processor.reset()
HistoryReset ==
    /\ pc = "proc"
    /\ Len(calls) < MaxHistoryCalls
    /\ vad_processor' = reset(vad_processor)
    /\ calls' = Append(calls, [op |-> "reset"])
    /\ UNCHANGED << VAD_BACKEND, pc, backend, chunk_size, audio_buffer, frame_count,
                    chunk_bytes, globals, sent, fed, message, rx, nmsg, switched,
                    other_processor >>

HistoryNext ==
    \/ \E n \in HistoryLens :
          \E is_speech \in (IF webrtc_native_ok(n) THEN BOOLEAN ELSE {FALSE}) :
             HistoryProcess(n, is_speech)
    \/ HistoryReset

SpecHistory == HistoryInit /\ [][HistoryNext]_vars

-----------------------------------------------------------------------------
(* WebRTCVADProcessor._get_speech_prob on one chunk of every length          *)

\* Longest chunk tried, in samples
MaxFrameLen == 1000

\* A fresh WebRTC processor and a chunk of message.len samples to give it
FrameLenInit ==
    /\ VAD_BACKEND = "webrtc"
    /\ pc = "proc"
    /\ backend = VAD_BACKEND
    /\ chunk_size = get_chunk_size(VAD_BACKEND)
    /\ vad_processor = NewProcessor(VAD_BACKEND, DEFAULT_THRESHOLD,
                                    DEFAULT_MIN_SPEECH_MS, BASE_MIN_SILENCE_MS)
    /\ audio_buffer = << >>
    /\ frame_count = 0
    /\ chunk_bytes = << >>
    /\ _ten_vad_instance = Unloaded
    /\ _webrtc_vad_instance = after_load(Unloaded, "webrtc", VAD_BACKEND)
    /\ _onnx_session = Unloaded
    /\ _vad_model = Unloaded
    /\ sent = << >>
    /\ fed = NoFrame
    /\ \E n \in 0..MaxFrameLen : message = [type |-> "chunk", len |-> n]
    /\ rx = 0
    /\ nmsg = 0
    /\ switched = FALSE
    /\ calls = << >>
    /\ other_processor = NoProcessor

\* self._get_speech_prob(audio_chunk): the frame is cut or padded (lines
\* 55-76) and handed to self.vad.is_speech (line 79); `len` is the number of
\* samples handed over
FrameLenCall(is_speech) ==
    /\ pc = "proc"
    /\ calls = << >>
    /\ LET n == message.len
           result == webrtc_get_speech_prob(vad_processor, n, is_speech)
       IN /\ vad_processor' = result.proc
          /\ calls' = << [op |-> "is_speech", n |-> n, len |-> webrtc_frame_len(n),
                          raised |-> ~webrtc_native_ok(n),
                          speech_prob |-> result.speech_prob] >>
    /\ UNCHANGED << VAD_BACKEND, pc, backend, chunk_size, audio_buffer, frame_count,
                    chunk_bytes, globals, sent, fed, message, rx, nmsg, switched,
                    other_processor >>

FrameLenNext == \E is_speech \in BOOLEAN : FrameLenCall(is_speech)

SpecFrameLen == FrameLenInit /\ [][FrameLenNext]_vars

-----------------------------------------------------------------------------
(* The standalone FunASR server, vad_server.py: handle_client                *)
(* Its locals is_speaking, last_speech_start_frame and last_speech_end_frame *)
(* are the fields of vad_processor; audio_buffer, frame_count and sent are   *)
(* the handler's buffer, its frame counter and the messages it has sent,     *)
(* each with the number of the frame it was sent on.                         *)

\* Frames one connection is followed for
MaxFunasrFrames == 24

CHUNK_SIZE == 3200

COOLDOWN_FRAMES == 10

MIN_SPEECH_FRAMES == 3

\* Lengths of the binary messages, in bytes
FunasrMsgLens == {CHUNK_SIZE, CHUNK_SIZE * 2}

\* What vad_model.generate gives for a frame, as lines 92-109 read it: no
\* segment, a last segment still open, a last segment closed, an exception
VadOutcomes == {"none", "ongoing", "ended", "raise"}

\* a debounce with no cooldown after a speech_end
debounce_no_cooldown(s, f, outcome) ==
    IF outcome = "ongoing" /\ ~s.is_speaking
    THEN [ session |-> [s EXCEPT !.is_speaking = TRUE, !.last_speech_start_frame = f],
           event |-> "speech_start" ]
    ELSE IF outcome = "ended" /\ s.is_speaking
    THEN IF f - s.last_speech_start_frame >= MIN_SPEECH_FRAMES
         THEN [ session |-> [s EXCEPT !.is_speaking = FALSE,
                                      !.last_speech_end_frame = f],
                event |-> "speech_end" ]
         ELSE [ session |-> s, event |-> "none" ]
    ELSE [ session |-> s, event |-> "none" ]

\* Lines 116-142 on frame f: the locals after the frame and the event to send
debounce(s, f, outcome) ==
    IF outcome = "ongoing" /\ ~s.is_speaking
    THEN IF f - s.last_speech_end_frame >= COOLDOWN_FRAMES
         THEN [ session |-> [s EXCEPT !.is_speaking = TRUE,
                                      !.last_speech_start_frame = f],
                event |-> "speech_start" ]
         ELSE [ session |-> s, event |-> "none" ]
    ELSE IF outcome = "ended" /\ s.is_speaking
    THEN IF f - s.last_speech_start_frame >= MIN_SPEECH_FRAMES
         THEN [ session |-> [s EXCEPT !.is_speaking = FALSE,
                                      !.last_speech_end_frame = f],
                event |-> "speech_end" ]
         ELSE [ session |-> s, event |-> "none" ]
    ELSE [ session |-> s, event |-> "none" ]

\* websocket.send(json.dumps(...)) of lines 121-124 and 135-139, on frame f
funasr_send(out, event, f) ==
    CASE event = "speech_start" ->
            Append(out, [text |-> "speech_start", is_speaking |-> TRUE, frame |-> f])
      [] event = "speech_end" ->
            Append(out, [text |-> "", is_speaking |-> FALSE, is_final |-> TRUE,
                         frame |-> f])
      [] OTHER -> out

\* Lines 32-41
FunasrInit ==
    /\ VAD_BACKEND = "funasr"
    /\ pc = "funasr"
    /\ backend = ""
    /\ chunk_size = 0
    /\ vad_processor = [kind |-> "fsmn", is_speaking |-> FALSE,
                        last_speech_start_frame |-> 0, last_speech_end_frame |-> 0]
    /\ audio_buffer = << >>
    /\ frame_count = 0
    /\ chunk_bytes = << >>
    /\ _ten_vad_instance = Unloaded
    /\ _webrtc_vad_instance = Unloaded
    /\ _onnx_session = Unloaded
    /\ _vad_model = Unloaded
    /\ sent = << >>
    /\ fed = NoFrame
    /\ message = [type |-> "none"]
    /\ rx = 0
    /\ nmsg = 0
    /\ switched = FALSE
    /\ calls = << >>
    /\ other_processor = NoProcessor

\* A binary message (lines 58-152): it is appended to the buffer and, when
\* the buffer then holds CHUNK_SIZE * 2 bytes, one frame is counted, given to
\* the model, debounced, its event sent, and CHUNK_SIZE bytes are dropped
FunasrRecvBytes(len, outcome) ==
    /\ pc = "funasr"
    /\ message' = [type |-> "bytes", len |-> len]
    /\ rx' = rx + len
    /\ LET buf == Concat(audio_buffer, stream_bytes(rx, len)) IN
       IF BLen(buf) >= CHUNK_SIZE * 2
       THEN /\ frame_count < MaxFunasrFrames
            /\ frame_count' = frame_count + 1
            /\ chunk_bytes' = take(buf, CHUNK_SIZE * 2)
            /\ LET d == IF outcome = "raise"
                        THEN [session |-> vad_processor, event |-> "none"]
                        ELSE debounce(vad_processor, frame_count', outcome)
               IN /\ vad_processor' = d.session
                  /\ sent' = funasr_send(sent, d.event, frame_count')
                  /\ fed' = [kind |-> "fsmn", outcome |-> outcome, event |-> d.event,
                             fault |-> "none"]
            /\ audio_buffer' = drop(buf, CHUNK_SIZE)
       ELSE /\ outcome = "none"
            /\ audio_buffer' = buf
            /\ UNCHANGED << frame_count, chunk_bytes, vad_processor, sent, fed >>
    /\ UNCHANGED << VAD_BACKEND, pc, backend, chunk_size, globals, nmsg, switched,
                    calls, other_processor >>

\* A frame whose event cannot be sent: the locals are already set (lines
\* 119-120, 133-134), websocket.send raises, the handler of line 148 prints
\* it, the buffer is cut, and the loop ends at its next read of the closed
\* connection (lines 154-159)
FunasrSendFails(len, outcome) ==
    /\ pc = "funasr"
    /\ frame_count < MaxFunasrFrames
    /\ LET buf == Concat(audio_buffer, stream_bytes(rx, len))
           d == debounce(vad_processor, frame_count + 1, outcome)
       IN /\ BLen(buf) >= CHUNK_SIZE * 2
          /\ d.event # "none"
          /\ vad_processor' = d.session
          /\ chunk_bytes' = take(buf, CHUNK_SIZE * 2)
          /\ audio_buffer' = drop(buf, CHUNK_SIZE)
          /\ fed' = [kind |-> "fsmn", outcome |-> outcome, event |-> d.event,
                     fault |-> "send"]
    /\ frame_count' = frame_count + 1
    /\ message' = [type |-> "bytes", len |-> len]
    /\ rx' = rx + len
    /\ pc' = "closed"
    /\ UNCHANGED << VAD_BACKEND, backend, chunk_size, globals, sent, nmsg, switched,
                    calls, other_processor >>

\* A text message (lines 46-55): {"is_speaking": false} ends the loop, any
\* other JSON and any text that is not JSON is passed over
FunasrRecvText(terminate) ==
    /\ pc = "funasr"
    /\ message' = [type |-> "text", terminate |-> terminate]
    /\ pc' = IF terminate THEN "closed" ELSE "funasr"
    /\ UNCHANGED << VAD_BACKEND, backend, chunk_size, vad_processor, audio_buffer,
                    frame_count, chunk_bytes, globals, sent, fed, rx, nmsg, switched,
                    calls, other_processor >>

\* The client goes away (lines 154-159)
FunasrDisconnect ==
    /\ pc = "funasr"
    /\ pc' = "closed"
    /\ message' = [type |-> "disconnect"]
    /\ UNCHANGED << VAD_BACKEND, backend, chunk_size, vad_processor, audio_buffer,
                    frame_count, chunk_bytes, globals, sent, fed, rx, nmsg, switched,
                    calls, other_processor >>

FunasrNext ==
    \/ \E len \in FunasrMsgLens, outcome \in VadOutcomes : FunasrRecvBytes(len, outcome)
    \/ \E len \in FunasrMsgLens, outcome \in VadOutcomes : FunasrSendFails(len, outcome)
    \/ \E terminate \in BOOLEAN : FunasrRecvText(terminate)
    \/ FunasrDisconnect

SpecFunasr == FunasrInit /\ [][FunasrNext]_vars

-----------------------------------------------------------------------------
(* Frame buffer claims *)

\* The sample count each backend requires, as the specification states it
RequiredSamples(kind) ==
    CASE kind = "ten" -> 256
      [] kind = "webrtc" -> 480
      [] OTHER -> 512

\* C1: Frame alignment.  On a connection without a backend switch, the k-th
\* frame handed to the classifier is the k-th slice of frameSizeBytes bytes
\* of the concatenation of all binary messages, the buffer holds exactly the
\* bytes of the concatenation after the last frame, and once the handler is
\* back at receive() it has classified every whole frame of the
\* concatenation: nothing is dropped and nothing is classified twice.
C1_FrameAlignment ==
    (vad_processor.kind \in Backends /\ ~switched) =>
        LET frameSizeBytes == 2 * RequiredSamples(vad_processor.kind) IN
        /\ frame_count > 0 =>
              chunk_bytes = stream_bytes((frame_count - 1) * frameSizeBytes,
                                         frameSizeBytes)
        /\ audio_buffer = stream_bytes(frame_count * frameSizeBytes,
                                       rx - frame_count * frameSizeBytes)
        /\ (pc # "frames" /\ fed.fault = "none") =>
              frame_count = rx \div frameSizeBytes

\* Two messages that split the stream inside a sample and inside a frame
\* have delivered a whole number of frames, all classified
C1_Witness ==
    /\ pc = "recv" /\ ~switched /\ vad_processor.kind \in Backends
    /\ nmsg >= 2 /\ message.type = "bytes" /\ message.len < rx
    /\ frame_count >= 2
    /\ rx = frame_count * 2 * RequiredSamples(vad_processor.kind)
    /\ audio_buffer = << >>

\* C2: every frame handed to process() has exactly the sample count the
\* backend active at that moment requires (ten 256, webrtc 480, silero 512),
\* also after a backend switch; the loop only runs on a buffer that holds a
\* whole frame, so a partial frame stays buffered and is never classified.
C2_FrameSize ==
    /\ fed.kind # "none" => fed.samples = RequiredSamples(fed.kind)
    /\ pc = "frames" =>
          BLen(audio_buffer) >= 2 * RequiredSamples(vad_processor.kind)
    /\ (pc = "recv" /\ message.type = "bytes") =>
          BLen(audio_buffer) < 2 * RequiredSamples(vad_processor.kind)

\* A frame classified after a switch to a backend with another frame size,
\* with a partial frame left in the buffer
C2_Witness ==
    /\ switched /\ pc = "recv" /\ message.type = "bytes"
    /\ fed.kind = vad_processor.kind
    /\ RequiredSamples(fed.kind) # RequiredSamples(VAD_BACKEND)
    /\ frame_count >= 2
    /\ audio_buffer # << >>

-----------------------------------------------------------------------------
(* Boundary state machine claims, on the frames of the handler *)

\* A step of the handler that classifies one frame and ends its pass of the
\* loop without an exception
FrameStep == frame_count' = frame_count + 1 /\ fed'.fault = "none"

\* sent' is sent with one event of the given name appended
OneEventSent(name) ==
    /\ Len(sent') = Len(sent) + 1
    /\ SubSeq(sent', 1, Len(sent)) = sent
    /\ sent'[Len(sent')].event = name

\* C3: a frame with p >= threshold (equality included) adds its sample count
\* to speech_samples and zeroes silence_samples; from Silent with the new
\* speech_samples >= min_speech_samples the state becomes Speaking and exactly
\* one speech_start is sent; otherwise the state stays and nothing is sent.
C3_SpeechFrame ==
    [][ (FrameStep /\ fed'.speech_prob >= vad_processor.threshold) =>
          /\ vad_processor'.speech_samples =
                vad_processor.speech_samples + fed'.samples
          /\ vad_processor'.silence_samples = 0
          /\ IF ~vad_processor.is_speaking
                /\ vad_processor'.speech_samples >= vad_processor.min_speech_samples
             THEN /\ vad_processor'.is_speaking
                  /\ OneEventSent("speech_start")
             ELSE /\ vad_processor'.is_speaking = vad_processor.is_speaking
                  /\ sent' = sent ]_vars

\* A frame whose probability equals the threshold has just flipped Silent to
\* Speaking
C3_Witness ==
    /\ message.type = "bytes"
    /\ fed.event = "speech_start"
    /\ fed.speech_prob = vad_processor.threshold
    /\ vad_processor.is_speaking
    /\ vad_processor.speech_samples >= vad_processor.min_speech_samples
    /\ Len(sent) = 1 /\ sent[1].event = "speech_start"

\* C4: a frame with p < threshold adds its sample count to silence_samples
\* and leaves speech_samples alone, unless the state is Speaking and the new
\* silence_samples >= min_silence_samples: then the state becomes Silent,
\* speech_samples becomes 0 and exactly one speech_end is sent.
C4_SilenceFrame ==
    [][ (FrameStep /\ fed'.speech_prob < vad_processor.threshold) =>
          /\ vad_processor'.silence_samples =
                vad_processor.silence_samples + fed'.samples
          /\ IF vad_processor.is_speaking
                /\ vad_processor'.silence_samples >= vad_processor.min_silence_samples
             THEN /\ ~vad_processor'.is_speaking
                  /\ vad_processor'.speech_samples = 0
                  /\ OneEventSent("speech_end")
             ELSE /\ vad_processor'.is_speaking = vad_processor.is_speaking
                  /\ vad_processor'.speech_samples = vad_processor.speech_samples
                  /\ sent' = sent ]_vars

\* A silent frame has just ended a speech segment
C4_Witness ==
    /\ message.type = "bytes"
    /\ fed.event = "speech_end"
    /\ fed.speech_prob < vad_processor.threshold
    /\ ~vad_processor.is_speaking
    /\ vad_processor.speech_samples = 0
    /\ vad_processor.silence_samples >= vad_processor.min_silence_samples
    /\ Len(sent) = 2 /\ sent[2].event = "speech_end"

\* A silent frame in Silent has left a non-empty speech run as it was
C4_WitnessRunKept ==
    /\ message.type = "bytes"
    /\ fed.event = "none"
    /\ fed.speech_prob < vad_processor.threshold
    /\ ~vad_processor.is_speaking
    /\ vad_processor.speech_samples > 0

\* C6: no duplicate events.  A frame with p >= threshold in Speaking sends
\* nothing, a frame with p < threshold in Silent sends nothing, and whenever
\* something is sent it is one event, sent by a frame step that changed
\* is_speaking: speech_start into Speaking, speech_end into Silent.
C6_NoDuplicateEvents ==
    [][ /\ (FrameStep /\ vad_processor.is_speaking
               /\ fed'.speech_prob >= vad_processor.threshold) => sent' = sent
        /\ (FrameStep /\ ~vad_processor.is_speaking
               /\ fed'.speech_prob < vad_processor.threshold) => sent' = sent
        /\ sent' # sent =>
              /\ FrameStep
              /\ vad_processor'.is_speaking # vad_processor.is_speaking
              /\ OneEventSent(IF vad_processor'.is_speaking
                              THEN "speech_start" ELSE "speech_end") ]_vars

\* A further speech frame in Speaking: the run is longer than the minimum by
\* at least a frame and the frame sent nothing
C6_Witness ==
    /\ message.type = "bytes"
    /\ vad_processor.is_speaking
    /\ fed.event = "none"
    /\ fed.speech_prob >= vad_processor.threshold
    /\ vad_processor.speech_samples >=
          vad_processor.min_speech_samples + 2 * fed.samples
    /\ Len(sent) = 1

-----------------------------------------------------------------------------
(* Control message claims *)

\* The step received one more message
MessageStep == nmsg' = nmsg + 1

\* m is a JSON object with a true reset flag
IsResetMessage(m) ==
    m.type = "text" /\ m.json /\ "reset" \in DOMAIN m.config /\ m.config.reset

\* The state the active backend keeps between frames is at its initial value
BackendStateInitial ==
    CASE vad_processor.kind = "ten" -> _ten_vad_instance.state = 0
      [] vad_processor.kind = "webrtc" -> vad_processor._history = << >>
      [] vad_processor.kind = "silero_onnx" -> vad_processor._state = 0
      [] vad_processor.kind = "silero_torch" -> _vad_model.state = 0
      [] OTHER -> TRUE

\* C9: a reset control message, for every backend type, zeroes both run
\* counters, sets the state to Silent and puts the state of the session's
\* backend back to its initial value.
C9_ResetMessage ==
    [][ (MessageStep /\ IsResetMessage(message')) =>
          /\ ~vad_processor'.is_speaking
          /\ vad_processor'.speech_samples = 0
          /\ vad_processor'.silence_samples = 0
          /\ BackendStateInitial' ]_vars

\* C9 without the TEN backend, whose native instance has no reset
C9_ResetMessageOtherBackends ==
    [][ (MessageStep /\ IsResetMessage(message') /\ vad_processor'.kind # "ten") =>
          /\ ~vad_processor'.is_speaking
          /\ vad_processor'.speech_samples = 0
          /\ vad_processor'.silence_samples = 0
          /\ BackendStateInitial' ]_vars

\* m is a JSON object that carries parameters only, or parameters and the
\* name of the backend b that is already active
IsUpdateMessage(m, b) ==
    /\ m.type = "text" /\ m.json
    /\ DOMAIN m.config \subseteq ParamKeys \cup {"backend"}
    /\ "backend" \in DOMAIN m.config => m.config.backend = b

\* C10: an updateParams message changes only the parameters it carries:
\* is_speaking, both run counters, the backend and its state, the buffered
\* tail and the parameters the message does not name stay as they were, and
\* nothing is sent.  A carried parameter takes the value of the message
\* (milliseconds as samples at 16 kHz).
C10_UpdateParamsFrame ==
    [][ (MessageStep /\ IsUpdateMessage(message', backend)) =>
          LET c == message'.config IN
          /\ vad_processor'.is_speaking = vad_processor.is_speaking
          /\ vad_processor'.speech_samples = vad_processor.speech_samples
          /\ vad_processor'.silence_samples = vad_processor.silence_samples
          /\ vad_processor'.kind = vad_processor.kind
          /\ vad_processor'._history = vad_processor._history
          /\ vad_processor'._state = vad_processor._state
          /\ UNCHANGED << backend, chunk_size, audio_buffer, globals, sent, pc >>
          /\ vad_processor'.threshold =
                IF "threshold" \in DOMAIN c THEN c.threshold
                ELSE vad_processor.threshold
          /\ vad_processor'.min_speech_samples =
                IF "min_speech_ms" \in DOMAIN c THEN 16 * c.min_speech_ms
                ELSE vad_processor.min_speech_samples
          /\ vad_processor'.min_silence_samples =
                IF "min_silence_ms" \in DOMAIN c THEN 16 * c.min_silence_ms
                ELSE vad_processor.min_silence_samples ]_vars

\* An update that names the active backend and a new threshold has arrived
\* in Speaking, with a run counted and a partial frame buffered
C10_Witness ==
    /\ IsUpdateMessage(message, backend) /\ ~switched /\ pc = "recv"
    /\ DOMAIN message.config = ParamKeys \cup {"backend"}
    /\ vad_processor.is_speaking
    /\ vad_processor.speech_samples > 0
    /\ audio_buffer # << >>
    /\ vad_processor.threshold = message.config.threshold

-----------------------------------------------------------------------------
(* Claims on a processor driven directly (SpecProc) *)

\* The first k calls are process() calls whose probability is >= threshold
HighRun(k) ==
    \A i \in 1..k :
        calls[i].op = "process" /\ calls[i].speech_prob >= vad_processor.threshold

\* Samples given to the first k calls, all of them process() calls
RECURSIVE RunSamples(_)
RunSamples(k) == IF k = 0 THEN 0 ELSE calls[k].n + RunSamples(k - 1)

\* speech_start events returned by the first k calls
Starts(k) == Cardinality({i \in 1..k : calls[i].op = "process"
                                       /\ calls[i].event = "speech_start"})

\* C5: hysteresis.  From a fresh Silent processor, a run of frames with
\* p >= threshold that totals exactly min_speech_samples - 1 samples and is
\* followed by a frame with p < threshold returns no speech_start; a run
\* that goes on past min_speech_samples - 1, by one sample or more, returns
\* exactly one speech_start, on the frame that reaches min_speech_samples,
\* and none while the run is shorter.
C5_Hysteresis ==
    \A k \in 1..Len(calls) :
        /\ (HighRun(k - 1) /\ RunSamples(k - 1) = vad_processor.min_speech_samples - 1
              /\ calls[k].op = "process"
              /\ calls[k].speech_prob < vad_processor.threshold) => Starts(k) = 0
        /\ (HighRun(k) /\ RunSamples(k) < vad_processor.min_speech_samples) =>
              Starts(k) = 0
        /\ (HighRun(k) /\ RunSamples(k) >= vad_processor.min_speech_samples) =>
              /\ Starts(k) = 1
              /\ (RunSamples(k - 1) < vad_processor.min_speech_samples) =>
                    calls[k].event = "speech_start"

\* A run of exactly min_speech_samples - 1 samples was extended by a frame of
\* one sample, which returned the speech_start
C5_Witness ==
    /\ Len(calls) >= 2
    /\ HighRun(Len(calls))
    /\ RunSamples(Len(calls) - 1) = vad_processor.min_speech_samples - 1
    /\ calls[Len(calls)].n = 1
    /\ calls[Len(calls)].event = "speech_start"
    /\ Starts(Len(calls)) = 1

\* A run of exactly min_speech_samples - 1 samples was followed by a drop
C5_WitnessDrop ==
    /\ Len(calls) >= 2
    /\ HighRun(Len(calls) - 1)
    /\ RunSamples(Len(calls) - 1) = vad_processor.min_speech_samples - 1
    /\ calls[Len(calls)].op = "process"
    /\ calls[Len(calls)].speech_prob < vad_processor.threshold
    /\ Starts(Len(calls)) = 0

\* The step is a call of reset()
ResetCall == calls' = Append(calls, [op |-> "reset"])

\* C8: reset idempotence.  Every reset() leaves Silent with both run counters
\* 0 and threshold and minimum durations as they were, and a reset() that
\* comes right after a reset() changes nothing at all: neither the processor
\* nor the state of any model.
C8_ResetIdempotent ==
    [][ ResetCall =>
          /\ ~vad_processor'.is_speaking
          /\ vad_processor'.speech_samples = 0
          /\ vad_processor'.silence_samples = 0
          /\ vad_processor'.threshold = vad_processor.threshold
          /\ vad_processor'.min_speech_samples = vad_processor.min_speech_samples
          /\ vad_processor'.min_silence_samples = vad_processor.min_silence_samples
          /\ (calls # << >> /\ calls[Len(calls)].op = "reset") =>
                (vad_processor' = vad_processor /\ globals' = globals) ]_vars

\* reset() was called twice in a row on a processor that a frame had just
\* put into Speaking
C8_Witness ==
    /\ Len(calls) >= 3
    /\ calls[Len(calls)].op = "reset"
    /\ calls[Len(calls) - 1].op = "reset"
    /\ calls[Len(calls) - 2].op = "process"
    /\ calls[Len(calls) - 2].event = "speech_start"
    /\ ~vad_processor.is_speaking

-----------------------------------------------------------------------------
(* The end-to-end scenario (SpecE2E) *)

\* C7: with the handler's defaults (threshold 0.5, 250 ms = 4000 samples,
\* 500 ms = 8000 samples) and 512-sample frames, the speech frames at 0.9
\* send speech_start on the 8th frame and on no other, and the silence
\* frames at 0.1 send speech_end on the 16th of them and on no other.
C7_EndToEnd ==
    /\ vad_processor.threshold = Prob(5)
    /\ vad_processor.min_speech_samples = 4000
    /\ vad_processor.min_silence_samples = 8000
    /\ frame_count >= 1 =>
          /\ fed.samples = 512
          /\ fed.event = "speech_start" <=> frame_count = 8
          /\ fed.event = "speech_end" <=> frame_count = SpeechFrames + 16
    /\ sent = IF frame_count < 8 THEN << >>
              ELSE IF frame_count < SpeechFrames + 16
              THEN << speech_start_json(Prob(9)) >>
              ELSE << speech_start_json(Prob(9)), speech_end_json(Prob(1)) >>

\* The whole scenario has been received and classified
C7_Witness ==
    /\ pc = "recv"
    /\ rx = ScenarioBytes
    /\ frame_count = SpeechFrames + SilenceFrames
    /\ Len(sent) = 2

-----------------------------------------------------------------------------
(* Ordering of control messages and frames *)

\* C11: parameter update ordering.  A frame's speech/silence decision and
\* its event use the threshold the processor holds when the frame is
\* classified; the threshold changes only when a JSON text message is
\* handled, and an update message sets it to the value it carries and sends
\* nothing, classifies nothing and leaves the record of the last frame as it
\* was: the frame before the update keeps what the old threshold gave it and
\* the frame after the update is decided by the new one.
C11_UpdateOrdering ==
    [][ /\ FrameStep =>
              /\ (fed'.speech_prob >= vad_processor.threshold) <=>
                    (vad_processor'.silence_samples = 0)
              /\ fed'.event = "speech_start" =>
                    fed'.speech_prob >= vad_processor.threshold
              /\ fed'.event = "speech_end" =>
                    fed'.speech_prob < vad_processor.threshold
              /\ vad_processor'.threshold = vad_processor.threshold
        /\ (MessageStep /\ IsUpdateMessage(message', backend)) =>
              /\ UNCHANGED << sent, fed, frame_count, audio_buffer >>
              /\ vad_processor'.is_speaking = vad_processor.is_speaking
              /\ "threshold" \in DOMAIN message'.config =>
                    vad_processor'.threshold = message'.config.threshold
        /\ (vad_processor.kind # "none"
              /\ vad_processor'.threshold # vad_processor.threshold) =>
              MessageStep /\ message'.type = "text" /\ message'.json ]_vars

\* Frame A (p = 0.5) was counted as speech under the threshold 0.5, a
\* threshold update to 0.9 came between the frames, and frame B (p = 0.5)
\* has just been counted as silence
C11_Witness ==
    /\ ~switched /\ message.type = "bytes" /\ nmsg = 3 /\ frame_count = 2
    /\ vad_processor.threshold = Prob(9)
    /\ fed.speech_prob = Prob(5) /\ fed.event = "none" /\ fed.fault = "none"
    /\ vad_processor.speech_samples = fed.samples
    /\ vad_processor.silence_samples = fed.samples

\* The update to 0.9 has just been handled after frame A (p = 0.5), which
\* the threshold 0.5 counted as speech: the count is not taken back
C11_WitnessNotRetracted ==
    /\ IsUpdateMessage(message, backend) /\ ~switched /\ pc = "recv"
    /\ "threshold" \in DOMAIN message.config
    /\ vad_processor.threshold = Prob(9)
    /\ frame_count = 1
    /\ fed.speech_prob = Prob(5) /\ fed.fault = "none"
    /\ vad_processor.speech_samples = fed.samples
    /\ vad_processor.silence_samples = 0

\* The stream offset of the last byte of a non-empty byte string
LastOffset(bytes) == bytes[Len(bytes)].hi

\* A step of the handler that slices one frame off the buffer
SliceStep == frame_count' = frame_count + 1

\* The settings a control message can change
Settings == << backend, chunk_size, vad_processor.kind, vad_processor.threshold,
               vad_processor.min_speech_samples, vad_processor.min_silence_samples >>

\* C12: one queue in arrival order.  A message is taken only when the frame
\* loop of the message before it is over; a frame is classified while the
\* binary message that completed it is being handled, so it holds at least
\* one byte of that message and no control message has come between the
\* frame's last byte and its classification; and classifying a frame changes
\* no setting, so a frame sees the effects of exactly the control messages
\* that arrived before its last byte.
C12_ArrivalOrder ==
    [][ /\ MessageStep => (pc = "recv" /\ frame_count' = frame_count)
        /\ SliceStep =>
              /\ message.type = "bytes"
              /\ LastOffset(chunk_bytes') >= rx - message.len
              /\ Settings' = Settings ]_vars

\* C12 on connections that have not switched their backend
C12_ArrivalOrderNoSwitch ==
    [][ /\ MessageStep => (pc = "recv" /\ frame_count' = frame_count)
        /\ (SliceStep /\ ~switched) =>
              /\ message.type = "bytes"
              /\ LastOffset(chunk_bytes') >= rx - message.len
              /\ Settings' = Settings ]_vars

-----------------------------------------------------------------------------
(* Backend switch claims *)

\* The step handled a message that replaced the backend
SwitchStep == MessageStep /\ backend' # backend

\* C13: backend switch safety.  A successful backend switch discards the
\* buffered partial frame: after the switch message the buffer is empty, so
\* the first frame of the new backend starts at the first byte received
\* after the switch and holds no byte received before it.
C13_SwitchDiscardsTail ==
    [][ SwitchStep => audio_buffer' = << >> ]_vars

\* m is a JSON object naming a backend other than b, without the end signal
WantsSwitch(m, b) ==
    /\ m.type = "text" /\ m.json
    /\ "backend" \in DOMAIN m.config /\ m.config.backend # b
    /\ ~is_terminate(m.config)

\* C14: a backend switch that fails, in a message without a reset flag,
\* leaves the session untouched.  A switch to a name that is unknown or
\* unimplemented always fails; whenever the requested backend did not become
\* the active one, the processor object with its parameters, state and run
\* counters, the active backend and its frame size, the loaded models, the
\* buffer and the output are as before, the handler is back at receive(),
\* and a frame is always classified by the active backend.
C14_FailedSwitch ==
    [][ /\ (MessageStep /\ WantsSwitch(message', backend)
              /\ ~Truthy(Get(message'.config, "reset"))) =>
              /\ message'.config.backend \notin Backends => backend' = backend
              /\ backend' # message'.config.backend =>
                    /\ UNCHANGED << backend, chunk_size, vad_processor, globals,
                                    audio_buffer, frame_count, sent >>
                    /\ pc' = "recv"
        /\ SliceStep => (fed'.kind = backend /\ fed'.samples = chunk_size) ]_vars

\* A switch with parameters to an implemented backend whose model could not
\* be loaded has just failed in the middle of a session: a frame had been
\* classified, bytes are buffered, and the parameters of the message were
\* not applied
C14_Witness ==
    /\ pc = "recv"
    /\ WantsSwitch(message, backend)
    /\ message.config.backend \in Backends
    /\ ~Loaded(message.config.backend)
    /\ "threshold" \in DOMAIN message.config
    /\ vad_processor.threshold = DEFAULT_THRESHOLD
    /\ vad_processor.kind = backend
    /\ frame_count >= 1 /\ vad_processor.speech_samples > 0
    /\ audio_buffer # << >>

\* A switch to the unimplemented funasr has just failed
C14_WitnessFunasr ==
    /\ pc = "recv"
    /\ WantsSwitch(message, backend)
    /\ message.config.backend = "funasr"
    /\ vad_processor.kind = backend /\ backend \in Backends
    /\ frame_count >= 1

-----------------------------------------------------------------------------
(* Failure claims *)

\* The step ran the handler from accept() to its first receive() or its return
AcceptStep == pc = "accept" /\ pc' # "accept"

\* C15: if the configured backend cannot be constructed at accept, no session
\* is created.  The accept step either creates a processor of the configured
\* backend, whose model is then loaded, or closes the connection with no
\* processor of any backend; a configured name that is unknown or
\* unimplemented always closes; and a connection closed without a processor
\* has classified no frame, sent no event, loaded nothing, and stays so.
C15_AcceptFailure ==
    /\ [][ AcceptStep =>
             /\ VAD_BACKEND \notin Backends => pc' = "closed"
             /\ \/ /\ pc' = "recv"
                   /\ vad_processor'.kind = VAD_BACKEND
                   /\ backend' = VAD_BACKEND
                   /\ Loaded(VAD_BACKEND)'
                \/ /\ pc' = "closed"
                   /\ vad_processor'.kind = "none"
                   /\ UNCHANGED << globals, frame_count, sent, audio_buffer >> ]_vars
    /\ [][ (pc = "closed" /\ vad_processor.kind = "none") =>
             UNCHANGED << pc, vad_processor, frame_count, sent, globals >> ]_vars
    /\ [](vad_processor.kind = "none" => (frame_count = 0 /\ sent = << >>))

\* The accept of a connection whose configured, implemented backend could
\* not be loaded: closed, no processor, nothing classified or sent
C15_Witness ==
    /\ pc = "closed"
    /\ VAD_BACKEND \in Backends /\ ~Loaded(VAD_BACKEND)
    /\ vad_processor.kind = "none"
    /\ frame_count = 0 /\ sent = << >> /\ nmsg = 0

\* C16: a text message that is not parsable JSON is ignored.  Handling it
\* changes nothing but the count of messages: the connection stays open at
\* receive(), nothing is sent, and the processor (threshold, minimum
\* durations, is_speaking, run counters, backend state), the active backend,
\* its frame size and the buffered tail are as before, so the next message
\* meets the state it would have met without it.
C16_MalformedIgnored ==
    [][ (MessageStep /\ message'.type = "text" /\ ~message'.json) =>
          /\ pc = "recv" /\ pc' = "recv"
          /\ UNCHANGED << vad_processor, backend, chunk_size, audio_buffer,
                          chunk_bytes, frame_count, globals, sent, fed, rx,
                          switched >> ]_vars

\* Unparsable text has just been handled in Speaking, with a partial frame
\* buffered and an event already sent
C16_Witness ==
    /\ message.type = "text" /\ ~message.json
    /\ pc = "recv"
    /\ vad_processor.is_speaking
    /\ vad_processor.speech_samples > 0
    /\ audio_buffer # << >>
    /\ Len(sent) = 1

\* C17: a frame on which the backend raises is skipped.  Nothing is sent for
\* it, is_speaking and both run counters are as before it, and the session
\* lives on: the handler goes on with the frame loop or the next receive().
C17_ClassificationFailure ==
    [][ (SliceStep /\ fed'.native_error) =>
          /\ sent' = sent
          /\ vad_processor'.is_speaking = vad_processor.is_speaking
          /\ vad_processor'.speech_samples = vad_processor.speech_samples
          /\ vad_processor'.silence_samples = vad_processor.silence_samples
          /\ pc' \in {"frames", "recv"} ]_vars

\* The session survives a native error on the WebRTC backend, which catches
\* it, and on no other backend
C17_SessionSurvives ==
    [][ (SliceStep /\ fed'.native_error) =>
          (pc' \in {"frames", "recv"} <=> vad_processor.kind = "webrtc") ]_vars

\* C18: a send that fails because the connection is closed is dropped.  The
\* exception ends the frame loop but not the handler abnormally: the handler
\* returns through its finally block, which resets the processor (Silent,
\* both counters 0), the event is not added to what was sent, and after that
\* nothing is ever classified or sent on the connection.
C18_SendFailure ==
    /\ [][ (SliceStep /\ fed'.fault = "send") =>
             /\ fed'.event # "none"
             /\ sent' = sent
             /\ pc' = "closed"
             /\ ~vad_processor'.is_speaking
             /\ vad_processor'.speech_samples = 0
             /\ vad_processor'.silence_samples = 0 ]_vars
    /\ [][ pc = "closed" => UNCHANGED << pc, sent, frame_count, vad_processor >> ]_vars

\* The send of a speech_start failed: the frame had put the processor into
\* Speaking, the handler has returned and the teardown has reset it, with
\* unclassified audio left in the buffer
C18_Witness ==
    /\ fed.fault = "send" /\ fed.event = "speech_start"
    /\ pc = "closed"
    /\ ~vad_processor.is_speaking /\ vad_processor.speech_samples = 0
    /\ sent = << >>
    /\ BLen(audio_buffer) >= bytes_needed

-----------------------------------------------------------------------------
(* Termination *)

\* m is a JSON object carrying is_speaking: false
IsTerminateMessage(m) ==
    /\ m.type = "text" /\ m.json
    /\ "is_speaking" \in DOMAIN m.config /\ m.config.is_speaking = FALSE

\* The processor is as the teardown leaves it
TornDown ==
    /\ ~vad_processor.is_speaking
    /\ vad_processor.speech_samples = 0
    /\ vad_processor.silence_samples = 0

\* C19: a text message carrying is_speaking: false terminates the session.
\* Handling it classifies and sends nothing and returns from the handler
\* through the teardown; once the end signal or a disconnect has been
\* handled the handler has finished and the processor is reset; and a
\* finished handler classifies no frame and sends no event any more.
C19_Terminate ==
    /\ [][ (MessageStep /\ IsTerminateMessage(message')) =>
             /\ pc' = "closed"
             /\ UNCHANGED << sent, frame_count, audio_buffer >> ]_vars
    /\ []((IsTerminateMessage(message) \/ message.type = "disconnect") =>
             (pc = "closed" /\ TornDown))
    /\ [][ pc = "closed" => UNCHANGED << pc, sent, frame_count, fed >> ]_vars

\* The end signal has arrived in Speaking with audio still buffered: the
\* session is over and torn down
C19_Witness ==
    /\ IsTerminateMessage(message)
    /\ pc = "closed" /\ TornDown
    /\ frame_count >= 1
    /\ Len(sent) = 1 /\ sent[1].event = "speech_start"
    /\ audio_buffer # << >>

-----------------------------------------------------------------------------
(* Isolation of connections (SpecTwo) *)

\* A step of the other connection
OtherStep == other_processor' # other_processor

\* The state the backend of the first connection keeps between frames
SessionBackendState ==
    CASE vad_processor.kind = "ten" -> _ten_vad_instance.state
      [] vad_processor.kind = "silero_torch" -> _vad_model.state
      [] vad_processor.kind = "silero_onnx" -> vad_processor._state
      [] vad_processor.kind = "webrtc" -> vad_processor._history
      [] OTHER -> 0

\* C20: session state is never shared between connections.  No step of
\* another connection (its accept, its frames, its teardown) changes
\* anything of this connection's session: its processor with run counters
\* and state, its buffer, its output, or the state its backend keeps
\* between frames.
C20_SessionIsolation ==
    [][ OtherStep =>
          /\ UNCHANGED << vad_processor, audio_buffer, frame_count, sent >>
          /\ SessionBackendState' = SessionBackendState ]_vars

\* C20 for what a connection keeps in its own objects: the processor with
\* its counters, _history and _state, the buffer and the output
C20_OwnObjectsIsolated ==
    [][ OtherStep =>
          UNCHANGED << vad_processor, audio_buffer, frame_count, sent >> ]_vars

\* The other connection was accepted and got its processor
OtherAcceptStep == other_processor.kind = "none" /\ other_processor'.kind \in Backends

\* The other connection ended and its teardown ran
OtherEndStep == other_processor.kind \in Backends /\ other_processor' = Ended

\* C21: per-connection errors are isolated.  The teardown of a connection
\* that ends (by error, disconnect or end signal) and the creation of
\* another connection's processor change nothing a still open connection
\* uses and no global of the process: the open connection's processor,
\* buffer and output and the state its backend keeps between frames are the
\* same before and after.
C21_TeardownIsolation ==
    [][ (OtherAcceptStep \/ OtherEndStep) =>
          /\ UNCHANGED << vad_processor, audio_buffer, frame_count, sent >>
          /\ UNCHANGED globals
          /\ SessionBackendState' = SessionBackendState ]_vars

\* C21 for the creation of a processor of a backend that is already loaded
C21_CreationIsolated ==
    [][ OtherAcceptStep =>
          /\ UNCHANGED << vad_processor, audio_buffer, frame_count, sent >>
          /\ UNCHANGED globals
          /\ SessionBackendState' = SessionBackendState ]_vars

\* The other connection has a frame waiting to be classified
OtherPending ==
    /\ other_processor.kind \in Backends
    /\ other_processor.speech_samples + other_processor.silence_samples
          < MaxOtherFrames * CHUNK_SIZES[other_processor.kind]

\* The other connection's handler can run now and classify its frame
OtherCanRun ==
    ENABLED (\E prob \in NativeProbs(other_processor),
                is_speech \in NativeBools(other_processor) :
                    OtherFrame(prob, is_speech))

\* C22: classification in one connection does not suspend the others.
\* Whenever this connection is inside the frame loop of a binary message,
\* with frames still to classify, and another connection has a frame
\* pending, the other connection's frame can be handled next, before this
\* connection has finished its frames.
C22_NoSuspension ==
    (pc = "frames" /\ OtherPending) => OtherCanRun

\* At every await of this connection's handler the other connection can run
C22_RunsAtAwaits ==
    (Yielded /\ OtherPending) => OtherCanRun

\* This connection is suspended in the send of a speech_start, with frames
\* of the same message still to classify, and the other connection, which
\* has a frame pending, can run
C22_WitnessAtSend ==
    /\ pc = "frames" /\ Yielded
    /\ fed.event = "speech_start"
    /\ OtherPending /\ OtherCanRun

-----------------------------------------------------------------------------
(* Shared backend instances (SpecLoad) *)

\* The module global that holds the instance of backend b
GlobalOf(b) ==
    CASE b = "ten" -> _ten_vad_instance
      [] b = "webrtc" -> _webrtc_vad_instance
      [] b = "silero_onnx" -> _onnx_session
      [] b = "silero_torch" -> _vad_model

\* C23: for each backend type the loader runs lazily, on first use, and
\* never again once it has succeeded.  A global holds an instance exactly
\* when its loader has succeeded once, and never a second instance; a
\* loaded global stays loaded with the same instance, over connections that
\* follow one another, switches and health checks; a global becomes loaded
\* only in the step that first needs it (a processor of its type is created,
\* or the health check of the configured backend runs); a processor exists
\* only with its type's instance loaded; and a creation that fails leaves
\* every global as it was.
C23_LoadOnce ==
    /\ [](\A b \in Backends :
             /\ GlobalOf(b).loads <= 1
             /\ GlobalOf(b).loaded <=> GlobalOf(b).loads = 1)
    /\ [](vad_processor.kind \in Backends => GlobalOf(vad_processor.kind).loaded)
    /\ [][ \A b \in Backends :
             /\ GlobalOf(b).loaded =>
                   (GlobalOf(b)'.loaded /\ GlobalOf(b)'.loads = GlobalOf(b).loads)
             /\ (~GlobalOf(b).loaded /\ GlobalOf(b)'.loaded) =>
                   \/ vad_processor'.kind = b /\ vad_processor.kind # b
                   \/ b = VAD_BACKEND /\ UNCHANGED vad_processor ]_vars
    /\ [][ /\ (AcceptStep /\ pc' = "closed") => UNCHANGED globals
           /\ (MessageStep /\ WantsSwitch(message', backend)
                 /\ backend' # message'.config.backend) => UNCHANGED globals ]_vars

\* A second connection has just been accepted and got the instance of the
\* configured backend that was loaded before it, while another backend,
\* loaded by a switch of the first connection, is still held as well
C23_Witness ==
    /\ message.type = "reconnect" /\ pc = "recv"
    /\ vad_processor.kind = VAD_BACKEND
    /\ GlobalOf(VAD_BACKEND).loads = 1
    /\ \E b \in Backends \ {VAD_BACKEND} : GlobalOf(b).loaded

-----------------------------------------------------------------------------
(* Event payloads *)

\* C24: every outbound event carries the raw probability of the frame that
\* triggered the transition.  Events are sent only by frame steps, one per
\* step at most and appended after the earlier ones; the event sent by a
\* frame has the speech_prob the backend returned for that very frame, which
\* is at or above the threshold for a speech_start and below it for a
\* speech_end; a speech_start has is_speaking true, a speech_end has
\* is_speaking false and is_final true.
C24_EventPayload ==
    [][ (sent' # sent) =>
          /\ FrameStep
          /\ Len(sent') = Len(sent) + 1
          /\ SubSeq(sent', 1, Len(sent)) = sent
          /\ LET e == sent'[Len(sent')] IN
             /\ e.event = fed'.event
             /\ e.speech_prob = fed'.speech_prob
             /\ e.event \in {"speech_start", "speech_end"}
             /\ e.event = "speech_start" =>
                   /\ e.is_speaking = TRUE
                   /\ e.speech_prob >= vad_processor.threshold
             /\ e.event = "speech_end" =>
                   /\ e.is_speaking = FALSE
                   /\ e.is_final = TRUE
                   /\ e.speech_prob < vad_processor.threshold ]_vars

\* A speech_start and then a speech_end were sent, with different
\* probabilities, the second by the frame just classified
C24_Witness ==
    /\ Len(sent) >= 2
    /\ sent[Len(sent) - 1].event = "speech_start"
    /\ sent[Len(sent)].event = "speech_end"
    /\ sent[Len(sent)].speech_prob # sent[Len(sent) - 1].speech_prob
    /\ fed.event = "speech_end"
    /\ fed.speech_prob = sent[Len(sent)].speech_prob

-----------------------------------------------------------------------------
(* Debouncing (SpecProc) *)

\* Samples of the unbroken run of process() calls with probability >=
\* threshold that ends with call k (0 when call k is not one of them)
RECURSIVE TrailHigh(_)
TrailHigh(k) ==
    IF k = 0 THEN 0
    ELSE IF calls[k].op = "process" /\ calls[k].speech_prob >= vad_processor.threshold
         THEN calls[k].n + TrailHigh(k - 1)
         ELSE 0

\* Samples of the unbroken run of process() calls with probability <
\* threshold that ends with call k (0 when call k is not one of them)
RECURSIVE TrailLow(_)
TrailLow(k) ==
    IF k = 0 THEN 0
    ELSE IF calls[k].op = "process" /\ calls[k].speech_prob < vad_processor.threshold
         THEN calls[k].n + TrailLow(k - 1)
         ELSE 0

\* C25: transient noise spikes are rejected.  A speech_start is returned only
\* by a frame that completes an unbroken run of frames with p >= threshold
\* totalling min_speech_samples or more: runs that are each shorter and are
\* separated by frames with p < threshold never flip the state to Speaking,
\* whatever they total together.
C25_NoiseSpikes ==
    \A k \in 1..Len(calls) :
        (calls[k].op = "process" /\ calls[k].event = "speech_start") =>
            TrailHigh(k) >= vad_processor.min_speech_samples

\* C26: brief pauses inside speech are rejected.  A speech_end is returned
\* only by a frame that completes an unbroken run of frames with
\* p < threshold totalling min_silence_samples or more, on a processor that
\* was Speaking: shorter runs separated by a frame with p >= threshold never
\* return speech_end, and a speech_end follows a speech_start with no reset
\* and no other speech_end in between.
C26_BriefPauses ==
    \A k \in 1..Len(calls) :
        (calls[k].op = "process" /\ calls[k].event = "speech_end") =>
            /\ TrailLow(k) >= vad_processor.min_silence_samples
            /\ \E j \in 1..(k - 1) :
                  /\ calls[j].op = "process" /\ calls[j].event = "speech_start"
                  /\ \A i \in (j + 1)..(k - 1) :
                        calls[i].op = "process" /\ calls[i].event = "none"

\* While Speaking, two runs of frames below the threshold, each shorter than
\* min_silence_samples and together longer, were separated by a frame at or
\* above it, and no speech_end was returned
C26_Witness ==
    /\ Len(calls) = 4
    /\ calls[1].op = "process" /\ calls[1].event = "speech_start"
    /\ \A i \in 2..4 : calls[i].op = "process" /\ calls[i].event = "none"
    /\ calls[2].speech_prob < vad_processor.threshold
    /\ calls[3].speech_prob >= vad_processor.threshold
    /\ calls[4].speech_prob < vad_processor.threshold
    /\ calls[2].n < vad_processor.min_silence_samples
    /\ calls[4].n < vad_processor.min_silence_samples
    /\ calls[2].n + calls[4].n >= vad_processor.min_silence_samples
    /\ vad_processor.is_speaking
    /\ vad_processor.silence_samples = calls[4].n

\* A run of min_silence_samples or more was completed while Speaking and
\* its last frame returned the speech_end
C26_WitnessEnd ==
    /\ Len(calls) >= 3
    /\ calls[Len(calls)].op = "process"
    /\ calls[Len(calls)].event = "speech_end"
    /\ TrailLow(Len(calls)) >= vad_processor.min_silence_samples
    /\ TrailLow(Len(calls) - 1) < vad_processor.min_silence_samples
    /\ ~vad_processor.is_speaking

-----------------------------------------------------------------------------
(* Fresh start of a session and of a switched backend *)

\* C27: a newly accepted session, and the state machine in effect right after
\* a successful backend switch, starts in Silent with speech_samples = 0 and
\* silence_samples = 0 and with fresh backend state: nothing of the backend
\* used before carries over the switch.
C27_FreshStart ==
    [][ ((AcceptStep /\ pc' = "recv") \/ SwitchStep) =>
          /\ ~vad_processor'.is_speaking
          /\ vad_processor'.speech_samples = 0
          /\ vad_processor'.silence_samples = 0
          /\ BackendStateInitial' ]_vars

\* The part of C27 on the state machine alone: Silent and both run counters 0
\* after an accept and after a switch, whatever the processor before held
C27_FreshCounters ==
    [][ ((AcceptStep /\ pc' = "recv") \/ SwitchStep) =>
          /\ ~vad_processor'.is_speaking
          /\ vad_processor'.speech_samples = 0
          /\ vad_processor'.silence_samples = 0
          /\ vad_processor'._history = << >>
          /\ vad_processor'._state = 0 ]_vars

\* A switch has just replaced a processor that was Speaking
C27_WitnessSwitch ==
    /\ switched /\ message.type = "text" /\ pc = "recv"
    /\ sent # << >> /\ sent[Len(sent)].event = "speech_start"
    /\ ~vad_processor.is_speaking
    /\ vad_processor.kind = backend /\ backend # VAD_BACKEND

-----------------------------------------------------------------------------
(* WebRTC smoothing window (SpecHistory) *)

\* The boolean results, as 0 or 1, of the calls among the first k that the
\* native classifier answered, since the last reset(), oldest first
RECURSIVE Results(_)
Results(k) ==
    IF k = 0 THEN << >>
    ELSE IF calls[k].op = "reset" THEN << >>
    ELSE IF calls[k].ok
         THEN Append(Results(k - 1), IF calls[k].is_speech THEN 1 ELSE 0)
         ELSE Results(k - 1)

\* The last entries of h, five at most
Window(h) == IF Len(h) > 5 THEN SubSeq(h, Len(h) - 4, Len(h)) ELSE h

\* C28: WebRTC smoothing.  In every reachable state the history holds at most
\* 5 entries, each 0 or 1, which are the most recent results the native
\* classifier gave since the last reset, in order; the probability returned
\* for a frame the classifier answered is the mean of the history after that
\* frame's result was appended; after reset() the history is empty.
C28_Smoothing ==
    /\ Len(vad_processor._history) <= 5
    /\ \A i \in 1..Len(vad_processor._history) : vad_processor._history[i] \in {0, 1}
    /\ vad_processor._history = Window(Results(Len(calls)))
    /\ \A k \in 1..Len(calls) :
          (calls[k].op = "process" /\ calls[k].ok) =>
              calls[k].speech_prob * Len(Window(Results(k))) =
                  Sum(Window(Results(k))) * ProbDen
    /\ (calls # << >> /\ calls[Len(calls)].op = "reset") =>
          vad_processor._history = << >>

\* The window is full and has dropped its oldest entry, a 1: six frames were
\* answered 1, 0, 1, 0, 0 and 1, with a frame the classifier raised on among
\* them, and the last probability is the mean of the last five, 2/5
C28_Witness ==
    /\ Len(calls) = MaxHistoryCalls
    /\ Results(Len(calls)) = <<1, 0, 1, 0, 0, 1>>
    /\ vad_processor._history = <<0, 1, 0, 0, 1>>
    /\ \E k \in 1..Len(calls) : calls[k].op = "process" /\ ~calls[k].ok
    /\ calls[Len(calls)].speech_prob * 5 = 2 * ProbDen

\* reset() has just emptied a history that held entries
C28_WitnessReset ==
    /\ Len(calls) >= 2
    /\ calls[Len(calls)].op = "reset"
    /\ Results(Len(calls) - 1) # << >>
    /\ vad_processor._history = << >>

-----------------------------------------------------------------------------
(* WebRTC frame length (SpecFrameLen) *)

\* C29: WebRTC frame-length tolerance.  For every length of the input chunk,
\* the frame handed to the native classifier has exactly 160, 320 or 480
\* samples, made from the chunk by truncation or zero-padding.
C29_FrameLength ==
    \A k \in 1..Len(calls) :
        calls[k].op = "is_speech" => calls[k].len \in {160, 320, 480}

\* The lengths whose duration in whole milliseconds is 10, 20 or 30
NearValid(n) == (n * 1000) \div SAMPLE_RATE \in {10, 20, 30}

\* What the code does for every length: a chunk whose duration in whole
\* milliseconds is 10, 20 or 30 is handed over as it is; any other chunk is
\* cut to 480 samples when it has that many, else cut or padded to 160
C29_FrameLengthAsCoded ==
    \A k \in 1..Len(calls) :
        calls[k].op = "is_speech" =>
            /\ NearValid(calls[k].n) => calls[k].len = calls[k].n
            /\ ~NearValid(calls[k].n) =>
                  calls[k].len = IF calls[k].n >= 480 THEN 480 ELSE 160
            /\ calls[k].raised <=> calls[k].len \notin {160, 320, 480}

\* A chunk of 161 samples was handed over whole and the classifier raised
C29_WitnessOdd ==
    /\ calls # << >>
    /\ calls[1].n = 161 /\ calls[1].len = 161 /\ calls[1].raised

-----------------------------------------------------------------------------
(* FunASR standalone server (SpecFunasr) *)

\* The frame number of the event sent before the i-th, 0 if there is none
FrameBefore(i) == IF i = 1 THEN 0 ELSE sent[i - 1].frame

\* C30: FunASR standalone server debounce.  The events sent strictly
\* alternate speech_start, speech_end, speech_start, ..., so a speech_start
\* is sent only when the session is not speaking and a speech_end only when
\* it is; a speech_start is sent on a frame f only if f minus the frame of
\* the last speech_end sent (0 if none yet) is at least 10, a speech_end only
\* if f minus the frame of the last speech_start sent is at least 3; an event
\* is sent on the frame being processed, one per frame at most, and while
\* the connection is open the session is speaking exactly when the last
\* event sent is a speech_start.
C30_Debounce ==
    /\ [](\A i \in 1..Len(sent) :
             /\ (i % 2 = 1) =>
                   /\ sent[i].text = "speech_start" /\ sent[i].is_speaking = TRUE
                   /\ sent[i].frame - FrameBefore(i) >= 10
             /\ (i % 2 = 0) =>
                   /\ sent[i].text = "" /\ sent[i].is_speaking = FALSE
                   /\ sent[i].is_final = TRUE
                   /\ sent[i].frame - FrameBefore(i) >= 3)
    /\ [](pc = "funasr" => (vad_processor.is_speaking <=> Len(sent) % 2 = 1))
    /\ [][ sent' # sent =>
             /\ Len(sent') = Len(sent) + 1
             /\ SubSeq(sent', 1, Len(sent)) = sent
             /\ frame_count' = frame_count + 1
             /\ sent'[Len(sent')].frame = frame_count' ]_vars

\* A speech_start, a speech_end and a second speech_start were sent as early
\* as the debounce allows: on frames 10, 13 and 23
C30_Witness ==
    /\ Len(sent) = 3
    /\ sent[1].frame = 10 /\ sent[2].frame = 13 /\ sent[3].frame = 23
    /\ sent[3].text = "speech_start"
    /\ vad_processor.is_speaking
    /\ frame_count = 23

\* The model reported speech during the cooldown and after it: nothing was
\* sent for the frame inside the cooldown
C30_WitnessCooldown ==
    /\ Len(sent) = 2
    /\ frame_count = sent[2].frame + 9
    /\ fed.outcome = "ongoing" /\ fed.event = "none"
    /\ ~vad_processor.is_speaking

\* C31: the FunASR standalone server never drops or duplicates bytes.  The
\* chunks it classifies cover disjoint, adjacent ranges of the received
\* stream: the k-th chunk classified is the k-th slice of CHUNK_SIZE * 2
\* bytes, so every received byte is part of one chunk at most, and the
\* buffer holds the bytes received after the last chunk.
C31_NoDropNoDuplicate ==
    /\ frame_count > 0 =>
          chunk_bytes = stream_bytes((frame_count - 1) * 6400, 6400)
    /\ audio_buffer = stream_bytes(frame_count * 6400, rx - frame_count * 6400)

\* What the code does: the k-th chunk classified starts CHUNK_SIZE bytes, half
\* a chunk, after the one before, and the buffer starts in the middle of the
\* chunk just classified
C31_OverlapAsCoded ==
    /\ frame_count > 0 =>
          chunk_bytes = stream_bytes((frame_count - 1) * 3200, 6400)
    /\ audio_buffer = stream_bytes(frame_count * 3200, rx - frame_count * 3200)

\* Two chunks were classified and the second began inside the first
C31_WitnessOverlap ==
    /\ frame_count = 2
    /\ chunk_bytes = stream_bytes(3200, 6400)
    /\ rx = 9600

-----------------------------------------------------------------------------
(* Events over control messages (SpecCtl) *)

\* C32: on one connection, for any sequence of audio frames and control
\* messages (parameter updates, reset, backend switch), the events sent
\* strictly alternate speech_start, speech_end, speech_start, ..., beginning
\* with speech_start: no two speech_start without a speech_end between them,
\* and no speech_end without a preceding unmatched speech_start.
C32_Alternation ==
    \A i \in 1..Len(sent) :
        sent[i].event = IF i % 2 = 1 THEN "speech_start" ELSE "speech_end"

\* The events alternate as long as no reset and no switch comes while
\* Speaking: a step that leaves is_speaking as the last event sent has it
C32_AlternationWithinUtterance ==
    [][ (FrameStep /\ sent' # sent) =>
          /\ sent'[Len(sent')].event =
                IF vad_processor.is_speaking THEN "speech_end" ELSE "speech_start"
          /\ vad_processor'.is_speaking = ~vad_processor.is_speaking ]_vars

\* Two speech_start events were sent in a row, a reset message between them
C32_WitnessReset ==
    /\ Len(sent) = 2
    /\ sent[1].event = "speech_start" /\ sent[2].event = "speech_start"
    /\ ~switched

-----------------------------------------------------------------------------
(* Parameters over a backend switch *)

\* C33: a successful backend switch preserves the session's configured
\* parameters: threshold, min_speech_samples and min_silence_samples after
\* the switch equal those before it, except for the fields the switch
\* message itself carries.
C33_SwitchKeepsParams ==
    [][ SwitchStep =>
          LET config == message'.config IN
          /\ vad_processor'.threshold =
                IF "threshold" \in DOMAIN config THEN config.threshold
                ELSE vad_processor.threshold
          /\ vad_processor'.min_speech_samples =
                IF "min_speech_ms" \in DOMAIN config
                THEN (config.min_speech_ms * 16000) \div 1000
                ELSE vad_processor.min_speech_samples
          /\ vad_processor'.min_silence_samples =
                IF "min_silence_ms" \in DOMAIN config
                THEN (config.min_silence_ms * 16000) \div 1000
                ELSE vad_processor.min_silence_samples ]_vars

\* What the code does: a field the switch message does not carry is set to
\* the default of the call in the handler (0.5, 250 ms, 500 ms), whatever the
\* session had
C33_SwitchDefaultsAsCoded ==
    [][ SwitchStep =>
          LET config == message'.config IN
          /\ vad_processor'.threshold =
                IF "threshold" \in DOMAIN config THEN config.threshold ELSE Prob(5)
          /\ vad_processor'.min_speech_samples =
                IF "min_speech_ms" \in DOMAIN config
                THEN (config.min_speech_ms * 16000) \div 1000 ELSE 4000
          /\ vad_processor'.min_silence_samples =
                IF "min_silence_ms" \in DOMAIN config
                THEN (config.min_silence_ms * 16000) \div 1000 ELSE 8000 ]_vars

\* A switch message that names a backend only has just put a session whose
\* threshold had been raised back to the default threshold
C33_WitnessLost ==
    /\ switched /\ pc = "recv" /\ nmsg = 2
    /\ message.type = "text" /\ DOMAIN message.config = {"backend"}
    /\ backend = message.config.backend
    /\ vad_processor.threshold = DEFAULT_THRESHOLD
    /\ vad_processor.min_speech_samples = 4000

-----------------------------------------------------------------------------
(* Control messages send nothing *)

\* The counters of the processor satisfy the condition of a transition
TransitionDue(p) ==
    \/ ~p.is_speaking /\ p.speech_samples >= p.min_speech_samples
    \/ p.is_speaking /\ p.silence_samples >= p.min_silence_samples

C34_WitnessLaterFrame ==
    /\ nmsg = 3 /\ message.type = "bytes" /\ ~switched
    /\ Len(sent) = 1 /\ fed.event = "speech_start"
    /\ frame_count = 4 /\ vad_processor.kind = "ten"
    /\ vad_processor.min_speech_samples = 512

-----------------------------------------------------------------------------
(* Event probabilities against the threshold *)

\* C35: every speech_start carries a speech_prob >= the threshold in effect
\* when its frame was classified, and every speech_end a speech_prob < that
\* threshold, for any sequence of frames and threshold updates.  Each event
\* appended by a step is compared with the threshold the processor held
\* before and after that step, and no step, a later threshold update
\* included, changes or removes an event already sent.
C35_ProbAgainstThreshold ==
    [][ /\ Len(sent') >= Len(sent)
        /\ SubSeq(sent', 1, Len(sent)) = sent
        /\ \A i \in (Len(sent) + 1)..Len(sent') :
              /\ vad_processor'.threshold = vad_processor.threshold
              /\ sent'[i].event = "speech_start" =>
                    sent'[i].speech_prob >= vad_processor.threshold
              /\ sent'[i].event = "speech_end" =>
                    sent'[i].speech_prob < vad_processor.threshold ]_vars

\* After a threshold update to 0.9, a speech_start was sent by a frame whose
\* probability is exactly the threshold
C35_Witness ==
    /\ vad_processor.threshold = Prob(9) /\ ~switched
    /\ fed.event = "speech_start" /\ fed.fault = "none"
    /\ sent # << >>
    /\ sent[Len(sent)].event = "speech_start"
    /\ sent[Len(sent)].speech_prob = vad_processor.threshold

\* After a threshold update to 0.9, a speech_end was sent by a frame whose
\* probability, 0.5, is at the default threshold and below the one in effect
C35_WitnessEnd ==
    /\ vad_processor.threshold = Prob(9)
    /\ fed.event = "speech_end" /\ fed.fault = "none"
    /\ sent[Len(sent)].event = "speech_end"
    /\ sent[Len(sent)].speech_prob = Prob(5)

-----------------------------------------------------------------------------
(* Counters between frames (SpecProc) *)

\* C36: with min_speech_samples > 0 and min_silence_samples > 0 and no
\* parameter update, in every state between frames a Silent processor has
\* speech_samples < min_speech_samples and a Speaking processor has
\* silence_samples < min_silence_samples, after reset() as well.
C36_CountersBelowMinimum ==
    (vad_processor.min_speech_samples > 0 /\ vad_processor.min_silence_samples > 0) =>
        /\ ~vad_processor.is_speaking =>
              vad_processor.speech_samples < vad_processor.min_speech_samples
        /\ vad_processor.is_speaking =>
              vad_processor.silence_samples < vad_processor.min_silence_samples

\* After a speech_start and a reset(), a Silent processor counts a speech
\* run one sample short of the minimum
C36_Witness ==
    /\ Len(calls) = 4
    /\ calls[1].op = "process" /\ calls[1].event = "speech_start"
    /\ calls[2].op = "reset"
    /\ calls[3].op = "process" /\ calls[4].op = "process"
    /\ ~vad_processor.is_speaking
    /\ vad_processor.speech_samples = vad_processor.min_speech_samples - 1

\* A Speaking processor counts a silence run below the minimum
C36_WitnessSpeaking ==
    /\ vad_processor.is_speaking
    /\ vad_processor.silence_samples > 0
    /\ vad_processor.silence_samples < vad_processor.min_silence_samples

-----------------------------------------------------------------------------
(* Unexpected JSON (SpecJson) *)

\* m is the end signal: a JSON object carrying is_speaking: false
IsSentinel(m) ==
    /\ m.type = "text" /\ m.json /\ "config" \in DOMAIN m
    /\ "is_speaking" \in DOMAIN m.config /\ m.config.is_speaking = FALSE

\* C37: no text message other than the is_speaking: false sentinel ends the
\* session.  After a text message that is not the sentinel (text that is not
\* JSON, JSON that is not an object, an object whose field has a value of the
\* wrong type) the connection is open with the same processor, and the
\* frames that follow are classified: a frame step ends without a fault
\* and leaves the connection open.
C37_OnlySentinelEnds ==
    [][ /\ (MessageStep /\ message'.type = "text" /\ ~IsSentinel(message')) =>
              (pc' = "recv" /\ vad_processor'.kind = vad_processor.kind)
        /\ (frame_count' = frame_count + 1) =>
              (fed'.fault = "none" /\ pc' \in {"frames", "recv"}) ]_vars

\* JSON that is not an object has ended a session that was open
C37_WitnessNotObject ==
    /\ message.type = "text" /\ message.json
    /\ "object" \in DOMAIN message /\ ~message.object
    /\ pc = "closed"

\* A frame that followed {"threshold": "0.9"} has ended the session
C37_WitnessStringThreshold ==
    /\ vad_processor.threshold = StrThreshold
    /\ fed.fault = "type"
    /\ pc = "closed"

====
